---------------------------- MODULE Spec2Model ----------------------------
(***************************************************************************)
(* Model of the sales-tax calculator's device price pipeline (web_app.py): *)
(*   - the Request Deduplicator of the /get_devices and /get_device_data   *)
(*     routes (active_requests, request_lock, threading.Event),            *)
(*   - the Device Cache (OptimizedDeviceCache: snapshot, brand and price   *)
(*     indexes, LRU search-result cache, cache_lock),                      *)
(*   - the Catalog Manager's staleness check and remote refresh            *)
(*     (check_and_update_from_google_sheets,                               *)
(*      download_and_process_google_sheets, process_price_sheet,           *)
(*      save_devices, save_last_update_info).                              *)
(* Each part has its own specification over the shared variable tuple.     *)
(* The manager's operations run one at a time and reload the Device Cache  *)
(* as the code does; the threads of the other parts are idle meanwhile.    *)
(***************************************************************************)
EXTENDS Integers, Sequences, FiniteSets, TLC

VARIABLES
    \* ---- Request Deduplicator -------------------------------------------
    active_requests,  \* calculator.active_requests: request key -> Event or NoEvent
    event_set,        \* the flag of each threading.Event object
    request_lock,     \* calculator.request_lock: the holding thread or NoThread
    dpc,              \* position of each request thread in its handler
    dkey,             \* request_key of the handler each thread runs
    devt,             \* the Event a thread is waiting on (NoEvent if none)
    dcreated,         \* TRUE iff the thread registered the entry of its request
    dlast             \* how the thread's last finished request ended

dvars == <<active_requests, event_set, request_lock, dpc, dkey, devt, dcreated, dlast>>

VARIABLES
    \* ---- Device Cache (OptimizedDeviceCache) -----------------------------
    devices,        \* self.devices: the held snapshot, in dict order
    device_index,   \* self.device_index: brand -> list of device names
    price_index,    \* self.price_index: price range -> list of device names
    search_cache,   \* self.search_cache: OrderedDict, oldest entry first
    last_modified,  \* self.last_modified, as the number of completed loads
    cache_lock,     \* self.cache_lock: "loader", a searcher, or NoThread
    lpc,            \* position of the thread running load_devices
    lcat,           \* the devices_data argument of the running / last load
    lpos,           \* position of _build_indexes in self.devices.items()
    spc,            \* position of each thread running search_devices
    sq,             \* its query argument
    slimit,         \* its limit argument
    sresults,       \* its local `results`
    ncalls,         \* number of search_devices calls started
    slast,          \* per thread: its last returned call (arguments and
                    \* result), kept while no load step ran since it began
    sprev,          \* per running call: the result of the thread's preceding
                    \* call, if slast holds one with the same arguments
    sclean,         \* per running call: no load step ran since it began
    sret,           \* the search_devices call that returned last
    rclean,         \* no load step ran since the call in sret began
    robs,           \* the last lock-free read (get / byBrand / byPriceRange)
    recent          \* the keys of the cached entries in the order of their
                    \* last use (a store or a hit), least recent first

cvars == <<devices, device_index, price_index, search_cache, last_modified,
           cache_lock, lpc, lcat, lpos, spc, sq, slimit, sresults, ncalls,
           slast, sprev, sclean, sret, rclean, robs, recent>>

VARIABLES
    \* ---- Catalog Manager (WebSalesTaxCalculator) -------------------------
    mem_devices,          \* self.devices: the in-memory catalog
    devices_file,         \* devices.json
    cache_file,           \* latest_prices_cache.csv
    last_update_file,     \* last_update.json
    google_sheets_loaded, \* self.google_sheets_loaded
    started,              \* TRUE once the calculator has been constructed
    remote,               \* what the remote sheet serves at present
    now,                  \* datetime.now(), in ticks of TickSeconds
    nops,                 \* number of manager operations run
    last_op,              \* what the last manager operation did
    merge,                \* the merge a thread is in the middle of, and the
                          \* catalogs the manager has held between merges
    google_sheets_loading, \* self.google_sheets_loading
    lazy_pc,              \* where each thread is in lazy_load_google_sheets
    lazy_ret              \* the status its last call returned

VARIABLES
    \* ---- Inputs and results of the functions checked on their own --------
    sheet,    \* the price sheet handed to the ingestion
    tax_in,   \* the arguments of calculate_sales_tax
    tax_out,  \* what the calls of calculate_sales_tax returned, in order
    price_in, \* the argument of _parse_price
    price_out \* how the call of _parse_price ended

pvars == <<sheet, tax_in, tax_out, price_in, price_out>>

lazyvars == <<google_sheets_loading, lazy_pc, lazy_ret>>

rvars == <<mem_devices, devices_file, cache_file, last_update_file,
           google_sheets_loaded, started, remote, now, nops, last_op, pvars, merge,
           lazyvars>>

\* The variables of the Device Cache that a manager operation can change.
loadvars == <<devices, device_index, price_index, search_cache, last_modified>>

vars == <<dvars, cvars, rvars>>

-----------------------------------------------------------------------------
(* Bounds *)
NumThreads == 3
MaxLoads == 2
MaxSearches == 3
\* The max_cache_size constructor argument of the cache under test.
max_cache_size == 2
MaxOps == 3
MaxTime == 3
MaxRows == 2
MaxCalls == 2
\* A cache of three entries and the calls that overflow it after a hit.
LruCapacity == 3
MaxLruSearches == 5
\* The threads that call lazy_load_google_sheets.
LazyCallers == 2
\* The merges a thread runs against the readers.
MaxMerges == 2

-----------------------------------------------------------------------------
(* Request Deduplicator: get_devices / get_device_data                     *)

Threads == 1..NumThreads
Events == 1..NumThreads
NoEvent == 0
NoThread == 0

\* request_key = 'get_devices' and f'get_device_data_{device_name}'
RequestKeys == {"get_devices", "get_device_data_Ab"}

InProgress(t) == dpc[t] # "idle"

\* Event objects still referenced by the table or by a waiting thread.
LiveEvents == {active_requests[k] : k \in RequestKeys} \cup {devt[t] : t \in Threads}

\* threading.Event(): a new object, distinct from every live one, flag clear.
NewEvent == CHOOSE e \in Events : e \notin LiveEvents

DedupStart ==
    /\ active_requests = [k \in RequestKeys |-> NoEvent]
    /\ event_set = [e \in Events |-> FALSE]
    /\ request_lock = NoThread
    /\ dpc = [t \in Threads |-> "idle"]
    /\ dkey = [t \in Threads |-> "get_devices"]
    /\ devt = [t \in Threads |-> NoEvent]
    /\ dcreated = [t \in Threads |-> FALSE]
    /\ dlast = [t \in Threads |-> "none"]

\* `with calculator.request_lock:` followed by the membership test: the thread
\* takes the lock and either finds the key (and calls Event.wait() inside the
\* with block, the lock still held) or registers a new Event.
RequestRegister(t, key) ==
    /\ dpc[t] = "idle"
    /\ request_lock = NoThread
    /\ request_lock' = t
    /\ dkey' = [dkey EXCEPT ![t] = key]
    /\ IF active_requests[key] # NoEvent
         THEN /\ dpc' = [dpc EXCEPT ![t] = "waiting"]
              /\ devt' = [devt EXCEPT ![t] = active_requests[key]]
              /\ dcreated' = [dcreated EXCEPT ![t] = FALSE]
              /\ UNCHANGED <<active_requests, event_set>>
         ELSE /\ dpc' = [dpc EXCEPT ![t] = "registered"]
              /\ active_requests' = [active_requests EXCEPT ![key] = NewEvent]
              /\ event_set' = [event_set EXCEPT ![NewEvent] = FALSE]
              /\ dcreated' = [dcreated EXCEPT ![t] = TRUE]
              /\ UNCHANGED devt
    /\ UNCHANGED dlast
    /\ UNCHANGED <<cvars, rvars>>

\* The /get_devices handler entering its deduplication block.
GetDevicesEnter(t) == RequestRegister(t, "get_devices")

\* The /get_device_data/<device_name> handler entering its deduplication block.
GetDeviceDataEnter(t) == RequestRegister(t, "get_device_data_Ab")

\* Leaving the with block: at once for the thread that registered, and for a
\* waiting thread only when Event.wait() returns, that is when the flag is set.
RequestLeaveLock(t) ==
    /\ dpc[t] \in {"registered", "waiting"}
    /\ (dpc[t] = "waiting" => event_set[devt[t]])
    /\ request_lock' = NoThread
    /\ dpc' = [dpc EXCEPT ![t] = "work"]
    /\ devt' = [devt EXCEPT ![t] = NoEvent]
    /\ UNCHANGED <<active_requests, event_set, dkey, dcreated, dlast>>
    /\ UNCHANGED <<cvars, rvars>>

\* The body of the try block: the catalog read and jsonify, which returns or raises.
RequestWork(t) ==
    /\ dpc[t] = "work"
    /\ \E outcome \in {"ok", "raise"} :
          dlast' = [dlast EXCEPT ![t] = outcome]
    /\ dpc' = [dpc EXCEPT ![t] = "finally"]
    /\ UNCHANGED <<active_requests, event_set, request_lock, dkey, devt, dcreated>>
    /\ UNCHANGED <<cvars, rvars>>

\* A finally block that forgets the entry when the work raised.
RequestFinallyOnlyOnSuccess(t) ==
    /\ dpc[t] = "finally"
    /\ request_lock = NoThread
    /\ IF active_requests[dkey[t]] # NoEvent /\ dlast[t] = "ok"
         THEN /\ event_set' = [event_set EXCEPT ![active_requests[dkey[t]]] = TRUE]
              /\ active_requests' = [active_requests EXCEPT ![dkey[t]] = NoEvent]
         ELSE UNCHANGED <<active_requests, event_set>>
    /\ dpc' = [dpc EXCEPT ![t] = "idle"]
    /\ UNCHANGED <<request_lock, dkey, devt, dcreated, dlast>>
    /\ UNCHANGED <<cvars, rvars>>

\* The finally block: take the lock, and if the key is registered set its
\* Event and delete the entry; then the handler returns (or re-raises).
RequestFinally(t) ==
    /\ dpc[t] = "finally"
    /\ request_lock = NoThread
    /\ IF active_requests[dkey[t]] # NoEvent
         THEN /\ event_set' = [event_set EXCEPT ![active_requests[dkey[t]]] = TRUE]
              /\ active_requests' = [active_requests EXCEPT ![dkey[t]] = NoEvent]
         ELSE UNCHANGED <<active_requests, event_set>>
    /\ dpc' = [dpc EXCEPT ![t] = "idle"]
    /\ UNCHANGED <<request_lock, dkey, devt, dcreated, dlast>>
    /\ UNCHANGED <<cvars, rvars>>

NextDedup ==
    \E t \in Threads :
        \/ GetDevicesEnter(t)
        \/ GetDeviceDataEnter(t)
        \/ RequestLeaveLock(t)
        \/ RequestWork(t)
        \/ RequestFinally(t)

-----------------------------------------------------------------------------
(* Device Cache: strings, records and catalogs                             *)

\* Two request threads call search_devices.
Searchers == 1..2
Loader == -1

\* Strings are sequences of characters. str.lower() on a character:
LowerOf ==
    ("A" :> "a") @@ ("B" :> "b") @@ ("C" :> "c") @@ ("D" :> "d") @@ ("E" :>
    "e") @@ ("F" :> "f") @@ ("G" :> "g") @@ ("H" :> "h") @@ ("I" :> "i") @@
    ("J" :> "j") @@ ("K" :> "k") @@ ("L" :> "l") @@ ("M" :> "m") @@ ("N" :>
    "n") @@ ("O" :> "o") @@ ("P" :> "p") @@ ("Q" :> "q") @@ ("R" :> "r") @@
    ("S" :> "s") @@ ("T" :> "t") @@ ("U" :> "u") @@ ("V" :> "v") @@ ("W" :>
    "w") @@ ("X" :> "x") @@ ("Y" :> "y") @@ ("Z" :> "z")

Lower(c) == IF c \in DOMAIN LowerOf THEN LowerOf[c] ELSE c

LowerStr(str) == [i \in 1..Len(str) |-> Lower(str[i])]

IsSpace(c) == c = " "

\* Python's `q in str` for strings.
Contains(str, q) ==
    \E i \in 0..(Len(str) - Len(q)) : SubSeq(str, i + 1, i + Len(q)) = q

\* str.split()[0]: the first maximal run of non-whitespace characters.
TokenStart(str) ==
    CHOOSE i \in 1..Len(str) :
        ~IsSpace(str[i]) /\ \A j \in 1..(i - 1) : IsSpace(str[j])

TokenEnd(str) ==
    CHOOSE e \in TokenStart(str)..Len(str) :
        /\ \A j \in TokenStart(str)..e : ~IsSpace(str[j])
        /\ (e = Len(str) \/ IsSpace(str[e + 1]))

FirstToken(str) == SubSeq(str, TokenStart(str), TokenEnd(str))

\* brand = device_name.split()[0].lower() if device_name else ''
BrandOfNoLower(device_name) ==
    IF device_name # <<>> THEN FirstToken(device_name) ELSE <<>>

BrandOf(device_name) ==
    IF device_name # <<>> THEN LowerStr(FirstToken(device_name)) ELSE <<>>

\* price = device_data.get('msrp', 0) if isinstance(device_data, dict) else device_data
\* (a record with the field `legacy` stands for the old format, a bare number).
PriceOf(device_data) ==
    IF "legacy" \in DOMAIN device_data THEN device_data.legacy
    ELSE IF "msrp" \in DOMAIN device_data THEN device_data.msrp
    ELSE 0

\* price_range = f"{int(price // 100) * 100}-{int(price // 100) * 100 + 99}"
PriceRange(price) == <<(price \div 100) * 100, (price \div 100) * 100 + 99>>

\* Device names as the ingestion paths store them: stripped and non-empty.
N_Ab == <<"A", "b">>
N_aB == <<"a", " ", "B">>
N_Ba == <<"B", "a">>
N_abA == <<"a", "b", " ", "A">>

DeviceNames == {N_Ab, N_aB, N_Ba, N_abA}

\* Catalogs handed to load_devices: dicts in insertion order. The cache starts
\* with the empty dict, which a first load of {} would leave as it is.

CatA ==
    << [name |-> N_Ab, data |-> [msrp |-> 150]],
       [name |-> N_aB, data |-> [msrp |-> 1299, prepaid |-> 99]] >>

CatB ==
    << [name |-> N_abA, data |-> [msrp |-> 199]],
       [name |-> N_Ba, data |-> [legacy |-> 0]],
       [name |-> N_Ab, data |-> [legacy |-> 120]] >>

Catalogs == {CatA, CatB}

Queries == {<<>>, <<"A">>, <<"a", "b">>}
Limits == {0, 2}
Brands == {<<"a">>, <<"A", "b">>, <<"b", "a">>}
PriceBounds == {0, 100, 199}

\* dict.keys() as a list.
Keys(devs) == [i \in 1..Len(devs) |-> devs[i].name]

HasKey(devs, name) == \E i \in 1..Len(devs) : devs[i].name = name

\* dict.get(name): the record, or None.
None == [none |-> TRUE]

Lookup(devs, name) ==
    IF HasKey(devs, name)
      THEN devs[CHOOSE i \in 1..Len(devs) : devs[i].name = name].data
      ELSE None

\* list[:limit]
Min(a, b) == IF a <= b THEN a ELSE b
Max(a, b) == IF a >= b THEN a ELSE b

SliceTo(list, limit) ==
    IF limit >= 0 THEN SubSeq(list, 1, Min(limit, Len(list)))
    ELSE SubSeq(list, 1, Max(0, Len(list) + limit))

\* defaultdict(list)[k].append(name)
IndexAppend(index, k, name) ==
    IF k \in DOMAIN index THEN [index EXCEPT ![k] = Append(@, name)]
    ELSE index @@ (k :> <<name>>)

\* defaultdict.get(k, [])
IndexGet(index, k) == IF k \in DOMAIN index THEN index[k] ELSE <<>>

\* cache_key = f"{query.lower()}:{limit}"; the pair determines the string and
\* the string the pair (the limit is rendered without a colon).
CacheKey(query, limit) == <<LowerStr(query), limit>>

CacheKeys(cache) == {cache[i].key : i \in 1..Len(cache)}

CacheEntry(cache, key) == cache[CHOOSE i \in 1..Len(cache) : cache[i].key = key]

\* OrderedDict.move_to_end(key)
MoveToEnd(cache, key) ==
    LET i == CHOOSE j \in 1..Len(cache) : cache[j].key = key
    IN  SubSeq(cache, 1, i - 1) \o SubSeq(cache, i + 1, Len(cache)) \o <<cache[i]>>

\* OrderedDict[key] = results: in place for a present key, at the end otherwise.
CachePut(cache, key, results) ==
    IF key \in CacheKeys(cache)
      THEN [i \in 1..Len(cache) |->
              IF cache[i].key = key THEN [key |-> key, results |-> results]
              ELSE cache[i]]
      ELSE Append(cache, [key |-> key, results |-> results])

\* The search loop: append each matching name, leave once len(results) >= limit.
RECURSIVE ScanFrom(_, _, _, _, _)
ScanFrom(devs, i, query_lower, limit, results) ==
    IF i > Len(devs) THEN results
    ELSE IF Contains(LowerStr(devs[i].name), query_lower)
      THEN LET appended == Append(results, devs[i].name)
           IN  IF Len(appended) >= limit THEN appended
               ELSE ScanFrom(devs, i + 1, query_lower, limit, appended)
      ELSE ScanFrom(devs, i + 1, query_lower, limit, results)

Scan(devs, query, limit) == ScanFrom(devs, 1, LowerStr(query), limit, <<>>)

NoPrev == [has |-> FALSE, result |-> <<>>]

NoLast == [has |-> FALSE, query |-> <<>>, limit |-> 0, result |-> <<>>]

NoReturn ==
    [query |-> <<>>, limit |-> 0, result |-> <<>>, how |-> "none",
     has_prev |-> FALSE, prev |-> <<>>]

NoRead ==
    [op |-> "none", arg |-> <<>>, result |-> <<>>, snapshot |-> <<>>, during |-> "idle"]

\* The order of last use after a use of key, and after key has left the cache.
Used(order, key) == SelectSeq(order, LAMBDA k : k # key) \o <<key>>

Dropped(order, key) == SelectSeq(order, LAMBDA k : k # key)

CacheStart ==
    /\ devices = <<>>
    /\ device_index = <<>>
    /\ price_index = <<>>
    /\ search_cache = <<>>
    /\ last_modified = 0
    /\ cache_lock = NoThread
    /\ lpc = "idle"
    /\ lcat = <<>>
    /\ lpos = 0
    /\ spc = [s \in Searchers |-> "idle"]
    /\ sq = [s \in Searchers |-> <<>>]
    /\ slimit = [s \in Searchers |-> 0]
    /\ sresults = [s \in Searchers |-> <<>>]
    /\ slast = [s \in Searchers |-> NoLast]
    /\ sprev = [s \in Searchers |-> NoPrev]
    /\ sclean = [s \in Searchers |-> FALSE]
    /\ sret = NoReturn
    /\ rclean = FALSE
    /\ ncalls = 0
    /\ robs = NoRead
    /\ recent = <<>>

-----------------------------------------------------------------------------
(* Device Cache: load_devices / _build_indexes                             *)

\* A load step ends every "no load since the call began" observation.
LoadTouches ==
    /\ sclean' = [s \in Searchers |-> FALSE]
    /\ slast' = [s \in Searchers |-> NoLast]
    /\ sprev' = [s \in Searchers |-> NoPrev]
    /\ rclean' = FALSE

\* A load that fills the held dict in place and so shows its first record
\* before the others.
LoadBeginOfFirstRecord(devices_data) ==
    /\ lpc = "idle"
    /\ cache_lock = NoThread
    /\ last_modified < MaxLoads
    /\ cache_lock' = Loader
    /\ devices' = SubSeq(devices_data, 1, Min(1, Len(devices_data)))
    /\ lcat' = devices_data
    /\ lpc' = "clear"
    /\ LoadTouches
    /\ UNCHANGED <<device_index, price_index, search_cache, last_modified, lpos,
                   spc, sq, slimit, sresults, ncalls, sret, robs, recent>>

\* with self.cache_lock: self.devices = devices_data.copy()
LoadBeginOf(devices_data) ==
    /\ lpc = "idle"
    /\ cache_lock = NoThread
    /\ last_modified < MaxLoads
    /\ cache_lock' = Loader
    /\ devices' = devices_data
    /\ lcat' = devices_data
    /\ lpc' = "clear"
    /\ LoadTouches
    /\ UNCHANGED <<device_index, price_index, search_cache, last_modified, lpos,
                   spc, sq, slimit, sresults, ncalls, sret, robs, recent>>

\* load_devices called with a catalog from outside the manager.
LoadBegin(devices_data) == LoadBeginOf(devices_data) /\ UNCHANGED <<dvars, rvars>>

\* _build_indexes: self.device_index.clear(); self.price_index.clear()
LoadClearIndexes ==
    /\ lpc = "clear"
    /\ device_index' = <<>>
    /\ price_index' = <<>>
    /\ lpos' = 1
    /\ lpc' = "build"
    /\ LoadTouches
    /\ UNCHANGED <<devices, search_cache, last_modified, cache_lock, lcat,
                   spc, sq, slimit, sresults, ncalls, sret, robs, recent>>
    /\ UNCHANGED <<dvars, rvars>>

\* _build_indexes: one iteration of `for device_name, device_data in self.devices.items()`
LoadIndexDevice ==
    /\ lpc = "build"
    /\ lpos <= Len(devices)
    /\ LET device_name == devices[lpos].name
           price == PriceOf(devices[lpos].data)
       IN  /\ device_index' = IndexAppend(device_index, BrandOf(device_name), device_name)
           /\ price_index' =
                IF price # 0
                  THEN IndexAppend(price_index, PriceRange(price), device_name)
                  ELSE price_index
    /\ lpos' = lpos + 1
    /\ LoadTouches
    /\ UNCHANGED <<devices, search_cache, last_modified, cache_lock, lpc, lcat,
                   spc, sq, slimit, sresults, ncalls, sret, robs, recent>>
    /\ UNCHANGED <<dvars, rvars>>

\* self.search_cache.clear(); self.last_modified = datetime.now(); lock released
LoadFinish ==
    /\ lpc = "build"
    /\ lpos > Len(devices)
    /\ search_cache' = <<>>
    /\ last_modified' = last_modified + 1
    /\ cache_lock' = NoThread
    /\ lpc' = "idle"
    /\ LoadTouches
    /\ recent' = <<>>
    /\ UNCHANGED <<devices, device_index, price_index, lcat, lpos,
                   spc, sq, slimit, sresults, ncalls, sret, robs>>
    /\ UNCHANGED <<dvars, rvars>>

-----------------------------------------------------------------------------
(* Device Cache: search_devices                                            *)

\* The result of the thread's preceding call, when that call had the same
\* arguments and no load step ran since it began.
PrevFor(s, query, limit) ==
    IF slast[s].has /\ slast[s].query = query /\ slast[s].limit = limit
      THEN [has |-> TRUE, result |-> slast[s].result]
      ELSE NoPrev

Last(query, limit, result) ==
    [has |-> TRUE, query |-> query, limit |-> limit, result |-> result]

Returned(query, limit, result, how, prev) ==
    [query |-> query, limit |-> limit, result |-> result,
     how |-> how, has_prev |-> prev.has, prev |-> prev.result]

\* if not query: return list(self.devices.keys())[:limit]
SearchEmptyWithin(s, limit, budget) ==
    /\ spc[s] = "idle"
    /\ ncalls < budget
    /\ ncalls' = ncalls + 1
    /\ sret' = Returned(<<>>, limit, SliceTo(Keys(devices), limit), "empty",
                        PrevFor(s, <<>>, limit))
    /\ slast' = [slast EXCEPT ![s] = Last(<<>>, limit, SliceTo(Keys(devices), limit))]
    /\ rclean' = TRUE
    /\ UNCHANGED <<devices, device_index, price_index, search_cache, last_modified,
                   cache_lock, lpc, lcat, lpos, spc, sq, slimit, sresults, sprev,
                   sclean, robs, recent>>
    /\ UNCHANGED <<dvars, rvars>>

\* The first `with self.cache_lock:` block: a hit moves the entry to the end
\* and returns it; a miss goes on to the scan.
SearchBeginWithin(s, query, limit, budget) ==
    /\ query # <<>>
    /\ spc[s] = "idle"
    /\ ncalls < budget
    /\ cache_lock = NoThread
    /\ ncalls' = ncalls + 1
    /\ IF CacheKey(query, limit) \in CacheKeys(search_cache)
         THEN /\ search_cache' = MoveToEnd(search_cache, CacheKey(query, limit))
              /\ sret' = Returned(query, limit,
                                  CacheEntry(search_cache, CacheKey(query, limit)).results,
                                  "hit", PrevFor(s, query, limit))
              /\ slast' = [slast EXCEPT ![s] =
                             Last(query, limit,
                                  CacheEntry(search_cache, CacheKey(query, limit)).results)]
              /\ rclean' = TRUE
              /\ recent' = Used(recent, CacheKey(query, limit))
              /\ UNCHANGED <<spc, sq, slimit, sprev, sclean>>
         ELSE /\ spc' = [spc EXCEPT ![s] = "scan"]
              /\ sq' = [sq EXCEPT ![s] = query]
              /\ slimit' = [slimit EXCEPT ![s] = limit]
              /\ sprev' = [sprev EXCEPT ![s] = PrevFor(s, query, limit)]
              /\ sclean' = [sclean EXCEPT ![s] = TRUE]
              /\ UNCHANGED <<search_cache, slast, sret, rclean, recent>>
    /\ UNCHANGED <<devices, device_index, price_index, last_modified, cache_lock,
                   lpc, lcat, lpos, sresults, robs>>
    /\ UNCHANGED <<dvars, rvars>>

\* The calls of search_devices within the budget of the cache under test.
SearchEmpty(s, limit) == SearchEmptyWithin(s, limit, MaxSearches)

SearchBegin(s, query, limit) == SearchBeginWithin(s, query, limit, MaxSearches)

\* The loop over self.devices.keys(), outside the lock. The dict bound to
\* self.devices is never mutated in place (load_devices rebinds the name), so
\* the loop reads the snapshot that was current when it started.
SearchScan(s) ==
    /\ spc[s] = "scan"
    /\ sresults' = [sresults EXCEPT ![s] = Scan(devices, sq[s], slimit[s])]
    /\ spc' = [spc EXCEPT ![s] = "write"]
    /\ UNCHANGED <<devices, device_index, price_index, search_cache, last_modified,
                   cache_lock, lpc, lcat, lpos, sq, slimit, ncalls, slast, sprev,
                   sclean, sret, rclean, robs, recent>>
    /\ UNCHANGED <<dvars, rvars>>

\* The return of a call that scanned: its locals go away.
SearchReturn(s) ==
    /\ sret' = Returned(sq[s], slimit[s], sresults[s], "scan", sprev[s])
    /\ rclean' = sclean[s]
    /\ slast' = [slast EXCEPT ![s] =
                   IF sclean[s] THEN Last(sq[s], slimit[s], sresults[s]) ELSE NoLast]
    /\ spc' = [spc EXCEPT ![s] = "idle"]
    /\ sq' = [sq EXCEPT ![s] = <<>>]
    /\ slimit' = [slimit EXCEPT ![s] = 0]
    /\ sresults' = [sresults EXCEPT ![s] = <<>>]
    /\ sprev' = [sprev EXCEPT ![s] = NoPrev]
    /\ sclean' = [sclean EXCEPT ![s] = FALSE]

\* A search that returns its results without caching them.
SearchWriteNoStore(s) ==
    /\ spc[s] = "write"
    /\ cache_lock = NoThread
    /\ SearchReturn(s)
    /\ UNCHANGED <<devices, device_index, price_index, search_cache, last_modified,
                   cache_lock, lpc, lcat, lpos, ncalls, robs, recent>>
    /\ UNCHANGED <<dvars, rvars>>

\* The second `with self.cache_lock:` block: drop the oldest entry when the
\* cache is full, store the results under the key, return them.
SearchWriteInto(s, capacity) ==
    /\ spc[s] = "write"
    /\ cache_lock = NoThread
    /\ LET room == IF Len(search_cache) >= capacity
                     THEN Tail(search_cache)
                     ELSE search_cache
       IN  search_cache' = CachePut(room, CacheKey(sq[s], slimit[s]), sresults[s])
    /\ recent' =
          Used(IF Len(search_cache) >= capacity
                 THEN Dropped(recent, Head(search_cache).key) ELSE recent,
               CacheKey(sq[s], slimit[s]))
    /\ SearchReturn(s)
    /\ UNCHANGED <<devices, device_index, price_index, last_modified,
                   cache_lock, lpc, lcat, lpos, ncalls, robs>>
    /\ UNCHANGED <<dvars, rvars>>

\* The store into the cache under test.
SearchWrite(s) == SearchWriteInto(s, max_cache_size)

-----------------------------------------------------------------------------
(* Device Cache: the lock-free reads                                       *)

Read(op, arg, result) ==
    /\ robs' = [op |-> op, arg |-> arg, result |-> result, snapshot |-> devices,
                during |-> merge.pc]
    /\ UNCHANGED <<devices, device_index, price_index, search_cache, last_modified,
                   cache_lock, lpc, lcat, lpos, spc, sq, slimit, sresults, ncalls,
                   slast, sprev, sclean, sret, rclean, recent>>
    /\ UNCHANGED <<dvars, rvars>>

\* get_device: return self.devices.get(device_name)
GetDevice(device_name) == Read("get", device_name, Lookup(devices, device_name))

\* get_device_list: return list(self.device_cache.devices.keys())
GetDeviceList == Read("list", <<>>, Keys(devices))

\* get_devices_by_brand: return self.device_index.get(brand.lower(), [])
GetDevicesByBrand(brand) ==
    Read("byBrand", brand, IndexGet(device_index, LowerStr(brand)))

\* get_devices_by_price_range: the names with min_price <= price <= max_price
GetDevicesByPriceRange(min_price, max_price) ==
    Read("byPriceRange", <<min_price, max_price>>,
         SelectSeq(Keys(devices),
                   LAMBDA n : /\ min_price <= PriceOf(Lookup(devices, n))
                              /\ PriceOf(Lookup(devices, n)) <= max_price))

LoadStep ==
    \/ \E devices_data \in Catalogs : LoadBegin(devices_data)
    \/ LoadClearIndexes
    \/ LoadIndexDevice
    \/ LoadFinish

NextCache ==
    \/ LoadStep
    \/ \E s \in Searchers :
          \/ \E limit \in Limits : SearchEmpty(s, limit)
          \/ \E query \in Queries, limit \in Limits : SearchBegin(s, query, limit)
          \/ SearchScan(s)
          \/ SearchWrite(s)

\* search_devices calls and loads on a cache that has room for a hit between
\* the stores that fill it and the store that overflows it.
NextLru ==
    \/ LoadStep
    \/ \E s \in Searchers :
          \/ \E query \in Queries \ {<<>>}, limit \in Limits :
                SearchBeginWithin(s, query, limit, MaxLruSearches)
          \/ SearchScan(s)
          \/ SearchWriteInto(s, LruCapacity)

NextCacheReads ==
    \/ LoadStep
    \/ \E device_name \in DeviceNames : GetDevice(device_name)
    \/ \E brand \in Brands : GetDevicesByBrand(brand)
    \/ \E min_price \in PriceBounds, max_price \in PriceBounds :
          GetDevicesByPriceRange(min_price, max_price)

-----------------------------------------------------------------------------
(* Tabular Ingestor: StreamingCSVProcessor                                 *)

\* str.strip()
RECURSIVE LStrip(_)
LStrip(str) == IF str # <<>> /\ IsSpace(Head(str)) THEN LStrip(Tail(str)) ELSE str

RECURSIVE RStrip(_)
RStrip(str) ==
    IF str # <<>> /\ IsSpace(str[Len(str)]) THEN RStrip(SubSeq(str, 1, Len(str) - 1))
    ELSE str

Strip(str) == RStrip(LStrip(str))

\* str.replace(c, '')
Remove(str, c) == SelectSeq(str, LAMBDA x : x # c)

DigitValue ==
    [c \in {"0", "1", "2", "3", "4", "5", "6", "7", "8", "9"} |->
        CASE c = "0" -> 0 [] c = "1" -> 1 [] c = "2" -> 2 [] c = "3" -> 3
          [] c = "4" -> 4 [] c = "5" -> 5 [] c = "6" -> 6 [] c = "7" -> 7
          [] c = "8" -> 8 [] c = "9" -> 9]

IsDigits(str) == str # <<>> /\ \A i \in 1..Len(str) : str[i] \in DOMAIN DigitValue

RECURSIVE DigitsValue(_)
DigitsValue(str) ==
    IF str = <<>> THEN 0
    ELSE 10 * DigitsValue(SubSeq(str, 1, Len(str) - 1)) + DigitValue[str[Len(str)]]

\* float('nan'): the one float that is neither <= 0 nor > 0. It is kept apart
\* from the numbers by a value no price cell denotes.
NaN == -1000000

IsNaN(x) == x = NaN

\* x > 0 and x <= 0 on floats
Positive(x) == ~IsNaN(x) /\ x > 0

NotPositive(x) == ~IsNaN(x) /\ x <= 0

\* The text float() reads as NaN: "nan" in any case, with an optional sign.
IsNaNText(str) ==
    \/ LowerStr(str) = <<"n", "a", "n">>
    \/ str # <<>> /\ Head(str) \in {"-", "+"} /\ LowerStr(Tail(str)) = <<"n", "a", "n">>

\* The places of the decimal point in a text.
Points(str) == {i \in 1..Len(str) : str[i] = "."}

AllDigits(str) == \A i \in 1..Len(str) : str[i] \in DOMAIN DigitValue

\* Digits with at most one decimal point and a digit on one side of it at
\* least: "150", "1299.00", "5.", ".5".
IsUnsigned(str) ==
    \/ IsDigits(str)
    \/ /\ Cardinality(Points(str)) = 1
       /\ Len(str) > 1
       /\ AllDigits(SelectSeq(str, LAMBDA c : c # "."))

\* The digits before and after the decimal point.
WholePart(str) ==
    IF Points(str) = {} THEN str
    ELSE SubSeq(str, 1, (CHOOSE i \in Points(str) : TRUE) - 1)

Fraction(str) ==
    IF Points(str) = {} THEN <<>>
    ELSE SubSeq(str, (CHOOSE i \in Points(str) : TRUE) + 1, Len(str))

\* Prices are whole dollars here: the value of an unsigned numeral whose
\* fraction has no other digit than 0. A numeral with another fraction
\* denotes a float that is no whole number, and has no value here.
UnsignedValue(str) ==
    CASE \A i \in 1..Len(Fraction(str)) : Fraction(str)[i] = "0" ->
            DigitsValue(WholePart(str))

\* float(cleaned) on the texts of the price cells used here: an optional sign
\* and a decimal numeral, or NaN. Anything else raises ValueError.
IsNumeral(str) ==
    \/ IsUnsigned(str)
    \/ str # <<>> /\ Head(str) \in {"-", "+"} /\ IsUnsigned(Tail(str))
    \/ IsNaNText(str)

FloatOf(str) ==
    IF IsNaNText(str) THEN NaN
    ELSE IF IsUnsigned(str) THEN UnsignedValue(str)
    ELSE IF Head(str) = "-" THEN 0 - UnsignedValue(Tail(str))
    ELSE UnsignedValue(Tail(str))

\* _parse_price: strip '$' and ',' and whitespace, float() it; 0.0 on ValueError
_parse_price(price_str) ==
    LET cleaned == Strip(Remove(Remove(price_str, "$"), ","))
    IN  IF IsNumeral(cleaned) THEN FloatOf(cleaned) ELSE 0

NoColumn == <<>>

phone_patterns == {<<"p", "h", "o", "n", "e">>, <<"d", "e", "v", "i", "c", "e">>, <<"m", "o", "d", "e", "l">>, <<"n", "a", "m", "e">>, <<"p", "r", "o", "d", "u", "c", "t">>}
msrp_patterns == {<<"m", "s", "r", "p">>, <<"p", "r", "i", "c", "e">>, <<"c", "o", "s", "t">>, <<"a", "m", "o", "u", "n", "t">>, <<"v", "a", "l", "u", "e">>}
prepaid_patterns == {<<"p", "r", "e", "p", "a", "i", "d">>, <<"p", "r", "e", "p", "a", "y">>, <<"s", "u", "g", "g", "e", "s", "t", "e", "d">>}

\* The common shape of _detect_phone_column / _detect_msrp_column /
\* _detect_prepaid_column: the first field whose lowercased, stripped name
\* contains a pattern, else the field at the fallback index, else None.
DetectColumn(fieldnames, patterns, fallback) ==
    LET hits == {i \in 1..Len(fieldnames) :
                    \E p \in patterns : Contains(Strip(LowerStr(fieldnames[i])), p)}
    IN  IF hits # {} THEN fieldnames[CHOOSE i \in hits : \A j \in hits : i <= j]
        ELSE IF Len(fieldnames) > fallback THEN fieldnames[fallback + 1]
        ELSE NoColumn

\* Fallback to column B (index 1)
_detect_phone_column(fieldnames) == DetectColumn(fieldnames, phone_patterns, 1)

\* Fallback to column E (index 4)
_detect_msrp_column(fieldnames) == DetectColumn(fieldnames, msrp_patterns, 4)

\* Fallback to column I (index 8)
_detect_prepaid_column(fieldnames) == DetectColumn(fieldnames, prepaid_patterns, 8)

\* row.get(col, ''): the cell under the (last) field of that name.
RowGet(fieldnames, row, col) ==
    LET at == {i \in 1..Len(fieldnames) : fieldnames[i] = col /\ i <= Len(row)}
    IN  IF at = {} THEN <<>> ELSE row[CHOOSE i \in at : \A j \in at : j <= i]

\* An assignment that keeps the fields of the old record the new one lacks.
DictPutKeepingOld(devs, name, data) ==
    IF HasKey(devs, name)
      THEN [i \in 1..Len(devs) |->
              IF devs[i].name = name
                THEN [name |-> name, data |-> data @@ devs[i].data] ELSE devs[i]]
      ELSE Append(devs, [name |-> name, data |-> data])

\* dict[name] = data: in place for a present key, at the end otherwise.
DictPut(devs, name, data) ==
    IF HasKey(devs, name)
      THEN [i \in 1..Len(devs) |->
              IF devs[i].name = name THEN [name |-> name, data |-> data] ELSE devs[i]]
      ELSE Append(devs, [name |-> name, data |-> data])

\* dict.update(other)
RECURSIVE DictUpdate(_, _)
DictUpdate(devs, other) ==
    IF other = <<>> THEN devs
    ELSE DictUpdate(DictPut(devs, Head(other).name, Head(other).data), Tail(other))

\* The loop `for row in reader` of process_csv_stream, from row i on.
RECURSIVE StreamRows(_, _, _, _, _, _)
StreamRows(table, i, phone_col, msrp_col, prepaid_col, acc) ==
    IF i > Len(table.rows) THEN acc
    ELSE
      LET row == table.rows[i]
          phone_name == Strip(RowGet(table.fieldnames, row, phone_col))
          msrp_str == Strip(RowGet(table.fieldnames, row, msrp_col))
          msrp == _parse_price(msrp_str)
          prepaid_cell ==
              IF prepaid_col # NoColumn
                THEN RowGet(table.fieldnames, row, prepaid_col) ELSE <<>>
          prepaid_price == _parse_price(Strip(prepaid_cell))
          device_data ==
              IF prepaid_cell # <<>> /\ Positive(prepaid_price)
                THEN [msrp |-> msrp, prepaid |-> prepaid_price]
                ELSE [msrp |-> msrp]
          skipped == [acc EXCEPT !.skipped_count = @ + 1]
      IN  IF phone_name = <<>> \/ msrp_str = <<>>
            THEN StreamRows(table, i + 1, phone_col, msrp_col, prepaid_col, skipped)
          ELSE IF NotPositive(msrp)
            THEN StreamRows(table, i + 1, phone_col, msrp_col, prepaid_col, skipped)
          ELSE StreamRows(table, i + 1, phone_col, msrp_col, prepaid_col,
                          [acc EXCEPT !.devices = DictPut(@, phone_name, device_data),
                                      !.processed_count = @ + 1])

\* process_csv_stream on the content of a file. A content the Sniffer cannot
\* take a delimiter from (here: the empty file) raises inside the try block.
process_csv_stream(table) ==
    IF ~table.readable
      THEN [success |-> FALSE, error |-> "exception"]
    ELSE
      LET phone_col == _detect_phone_column(table.fieldnames)
          msrp_col == _detect_msrp_column(table.fieldnames)
          prepaid_col == _detect_prepaid_column(table.fieldnames)
      IN  IF phone_col = NoColumn \/ msrp_col = NoColumn
            THEN [success |-> FALSE, error |-> "detect"]
            ELSE LET acc == StreamRows(table, 1, phone_col, msrp_col, prepaid_col,
                                       [devices |-> <<>>, processed_count |-> 0,
                                        skipped_count |-> 0])
                 IN  [success |-> TRUE, devices |-> acc.devices,
                      processed_count |-> acc.processed_count,
                      skipped_count |-> acc.skipped_count,
                      phone_column |-> phone_col, msrp_column |-> msrp_col,
                      prepaid_column |-> prepaid_col]

\* Payloads the remote sheet serves (delimited text with a header line).
SheetA ==
    [readable |-> TRUE, size |-> 40,
     fieldnames |-> <<<<"P", "h", "o", "n", "e">>, <<"P", "r", "i", "c", "e">>>>,
     rows |-> << <<<<" ", "A", "b">>, <<"$", "1", "5", "0">>>>, <<<<" ", " ">>, <<"2", "0">>>>, <<<<"B", "a">>, <<"-", "5">>>> >>]

SheetB ==
    [readable |-> TRUE, size |-> 52,
     fieldnames |-> <<<<"P", "h", "o", "n", "e">>, <<"P", "r", "i", "c", "e">>, <<"S", "u", "g", "g", "e", "s", "t", "e", "d", " ", "P", "r", "e", "p", "a", "i", "d">>>>,
     rows |-> << <<<<" ", "A", "b">>, <<"$", "1", ",", "2", "9", "9">>, <<"9", "9">>>>, <<<<"a", " ", "B">>, <<"$", "1", "5", "0">>, <<"N", "/", "A">>>> >>]

\* A 200 response with an empty body.
SheetEmpty == [readable |-> FALSE, size |-> 0, fieldnames |-> <<>>, rows |-> <<>>]

Payloads == {SheetA, SheetB, SheetEmpty}

-----------------------------------------------------------------------------
(* Tabular Ingestor: the pandas path of process_price_sheet                *)

\* A DataFrame as pd.read_excel / pd.read_csv give it: column names and rows
\* of cells. A cell is missing (NaN), a number, or a string.
Missing == [t |-> "nan"]
Num(v) == [t |-> "num", v |-> v]
Str(s) == [t |-> "str", s |-> s]

\* pd.isna / isinstance(val, str)
isna(cell) == cell.t = "nan"

IsStr(cell) == cell.t = "str"

\* The decimal digits of a natural number.
RECURSIVE Digits(_)
Digits(n) ==
    IF n < 10 THEN <<CHOOSE c \in DOMAIN DigitValue : DigitValue[c] = n>>
    ELSE Append(Digits(n \div 10), CHOOSE c \in DOMAIN DigitValue : DigitValue[c] = n % 10)

\* str(val): "nan", the text, or the digits of a whole number, followed by
\* ".0" when the value comes as a float.
StrOfCell(cell, as_float) ==
    IF isna(cell) THEN <<"n", "a", "n">>
    ELSE IF IsStr(cell) THEN cell.s
    ELSE (IF cell.v < 0 THEN <<"-">> \o Digits(0 - cell.v) ELSE Digits(cell.v))
         \o (IF as_float THEN <<".", "0">> ELSE <<>>)

\* Whether iterrows hands the numbers of column j over as floats: the column
\* holds a missing value (float64), or every column is numeric and one of
\* them is float64, so the row is upcast.
AsFloat(frame, j) ==
    \/ \E i \in 1..Len(frame.rows) : isna(frame.rows[i][j])
    \/ /\ \A i \in 1..Len(frame.rows) : \A k \in 1..Len(frame.columns) :
              ~IsStr(frame.rows[i][k])
       /\ \E i \in 1..Len(frame.rows) : \E k \in 1..Len(frame.columns) :
              isna(frame.rows[i][k])

\* str.startswith
StartsWith(str, prefix) ==
    Len(str) >= Len(prefix) /\ SubSeq(str, 1, Len(prefix)) = prefix

Unnamed == <<"U", "n", "n", "a", "m", "e", "d">>

\* any(keyword in text for keyword in keywords)
AnyIn(keywords, text) == \E keyword \in keywords : Contains(text, keyword)

phone_name_keywords == {<<"p", "h", "o", "n", "e">>, <<"d", "e", "v", "i", "c", "e">>, <<"p", "r", "o", "d", "u", "c", "t">>, <<"m", "o", "d", "e", "l">>, <<"e", "q", "u", "i", "p", "m", "e", "n", "t">>, <<"i", "t", "e", "m">>, <<"n", "a", "m", "e">>}
exclude_keywords == {<<"s", "a", "p">>, <<"c", "o", "d", "e">>, <<"i", "d">>, <<"n", "u", "m", "b", "e", "r">>, <<"s", "k", "u">>, <<"#">>}
price_keywords == {<<"m", "s", "r", "p">>, <<"p", "r", "i", "c", "e">>, <<"c", "o", "s", "t">>, <<"p", "a", "y", "m", "e", "n", "t">>, <<"a", "m", "o", "u", "n", "t">>, <<"v", "a", "l", "u", "e">>, <<"r", "e", "t", "a", "i", "l">>}

\* The first column, in the frame's order, that satisfies Test; None if none.
FirstColumn(columns, Test(_)) ==
    IF \E j \in 1..Len(columns) : Test(columns[j])
      THEN columns[CHOOSE j \in 1..Len(columns) :
                      Test(columns[j]) /\ \A k \in 1..(j - 1) : ~Test(columns[k])]
      ELSE NoColumn

\* What is kept of a choice already made: `col` if set, else `other`.
Or(col, other) == IF col # NoColumn THEN col ELSE other

\* The position of the column named col.
ColumnAt(frame, col) == CHOOSE j \in 1..Len(frame.columns) : frame.columns[j] = col

\* df[col].dropna().head(n)
Sample(frame, col, n) ==
    LET values == [i \in 1..Len(frame.rows) |-> frame.rows[i][ColumnAt(frame, col)]]
        present == SelectSeq(values, LAMBDA cell : ~isna(cell))
    IN  SubSeq(present, 1, Min(n, Len(present)))

Count(seq, Test(_)) == Cardinality({i \in 1..Len(seq) : Test(seq[i])})

\* df.dropna(axis=1, how='all'): the columns with a value in some row
dropna_columns(frame) ==
    LET kept == SelectSeq([j \in 1..Len(frame.columns) |-> j],
                          LAMBDA j : \E i \in 1..Len(frame.rows) : ~isna(frame.rows[i][j]))
    IN  [columns |-> [k \in 1..Len(kept) |-> frame.columns[kept[k]]],
         rows |-> [i \in 1..Len(frame.rows) |->
                      [k \in 1..Len(kept) |-> frame.rows[i][kept[k]]]]]

\* columns_list[k] if len(columns_list) > k
Positional(columns, k) == IF Len(columns) > k THEN columns[k + 1] ELSE NoColumn

\* float(clean_val) > 0 on a sampled value, False when float() raises
LooksPositive(cell) ==
    IF IsStr(cell)
      THEN LET clean_val == Strip(Remove(Remove(cell.s, "$"), ","))
           IN  IsNumeral(clean_val) /\ Positive(FloatOf(clean_val))
      ELSE Positive(cell.v)

\* isinstance(val, str) and len(str(val).strip()) > 3
LooksText(cell) == IsStr(cell) /\ Len(Strip(cell.s)) > 3

Letters == {"a", "b", "c", "d", "e", "f", "g", "h", "i", "j", "k", "l", "m", "n", "o", "p", "q", "r", "s", "t", "u", "v", "w", "x", "y", "z", "A", "B", "C", "D", "E", "F", "G", "H", "I", "J", "K", "L", "M", "N", "O", "P", "Q", "R", "S", "T", "U", "V", "W", "X", "Y", "Z"}

\* The test of the phone-name fallback on str(val).strip(): longer than 5,
\* with a letter (so neither it nor it without '.' and '-' is all digits).
\* The text of a number has no letter.
LooksLikePhoneName(cell) ==
    /\ IsStr(cell)
    /\ Len(Strip(cell.s)) > 5
    /\ \E i \in 1..Len(cell.s) : cell.s[i] \in Letters

\* len(sample) * 0.7 <= count, in tenths
AtLeast70(count, sample) == 10 * count >= 7 * Len(sample)

AtLeast60(count, sample) == 10 * count >= 6 * Len(sample)

HasExcludeKeyword(col) == AnyIn(exclude_keywords, LowerStr(col))

\* Name-based detection, entered when a positional choice is missing.
NamedPhone(columns, phone_col) ==
    LET exact == Or(phone_col,
                    FirstColumn(columns, LAMBDA col : LowerStr(Strip(col)) = <<"p", "h", "o", "n", "e">>))
    IN  Or(exact, FirstColumn(columns, LAMBDA col :
                      /\ AnyIn(phone_name_keywords, Strip(LowerStr(col)))
                      /\ ~AnyIn(exclude_keywords, Strip(LowerStr(col)))))

NamedMsrp(columns, msrp_col) ==
    LET exact == Or(msrp_col,
                    FirstColumn(columns, LAMBDA col :
                        Contains(LowerStr(Strip(col)), <<"r", "i", "c", " ", "p", "u", "r", "c", "h", "a", "s", "e", " ", "p", "a", "y", "m", "e", "n", "t">>)))
    IN  Or(exact, FirstColumn(columns, LAMBDA col :
                      AnyIn(price_keywords, Strip(LowerStr(col)))))

NamedPrepaid(columns, prepaid_col) ==
    Or(prepaid_col, FirstColumn(columns, LAMBDA col :
                        Contains(LowerStr(Strip(col)), <<"p", "r", "e", "p", "a", "i", "d">>)))

\* Content analysis over the named columns that have values.
Sniffable(frame, col) ==
    ~StartsWith(col, Unnamed) /\ Len(Sample(frame, col, 10)) # 0

SniffedPhone(frame, phone_col) ==
    Or(phone_col, FirstColumn(frame.columns, LAMBDA col :
        /\ Sniffable(frame, col)
        /\ AtLeast70(Count(Sample(frame, col, 10), LooksText), Sample(frame, col, 10))))

SniffedMsrp(frame, msrp_col) ==
    Or(msrp_col, FirstColumn(frame.columns, LAMBDA col :
        /\ Sniffable(frame, col)
        /\ AtLeast70(Count(Sample(frame, col, 10), LooksPositive), Sample(frame, col, 10))))

\* Columns whose values look like phone names.
TextPhone(frame, phone_col) ==
    Or(phone_col, FirstColumn(frame.columns, LAMBDA col :
        /\ ~HasExcludeKeyword(col)
        /\ AtLeast70(Count(Sample(frame, col, 10), LooksLikePhoneName), Sample(frame, col, 10))))

\* Last resort: the first named, non-code columns, then unnamed numeric ones.
non_unnamed_cols(columns) ==
    SelectSeq(columns, LAMBDA col : ~StartsWith(col, Unnamed) /\ ~HasExcludeKeyword(col))

LastPhone(frame, phone_col) ==
    IF Len(non_unnamed_cols(frame.columns)) >= 1
      THEN Or(phone_col, non_unnamed_cols(frame.columns)[1])
      ELSE phone_col

LastMsrp(frame, msrp_col) ==
    IF Len(non_unnamed_cols(frame.columns)) >= 1
      THEN LET second == IF Len(non_unnamed_cols(frame.columns)) >= 2
                           THEN Or(msrp_col, non_unnamed_cols(frame.columns)[2])
                           ELSE msrp_col
           IN  Or(second, FirstColumn(frame.columns, LAMBDA col :
                      /\ StartsWith(col, Unnamed)
                      /\ AtLeast60(Count(Sample(frame, col, 5), LooksPositive),
                                   Sample(frame, col, 5))))
      ELSE msrp_col

\* The columns the detection settles on, tier after tier.
AfterText(frame, phone_col, msrp_col, prepaid_col) ==
    IF phone_col = NoColumn \/ msrp_col = NoColumn
      THEN [phone_col |-> LastPhone(frame, phone_col),
            msrp_col |-> LastMsrp(frame, msrp_col), prepaid_col |-> prepaid_col]
      ELSE [phone_col |-> phone_col, msrp_col |-> msrp_col, prepaid_col |-> prepaid_col]

AfterSniff(frame, phone_col, msrp_col, prepaid_col) ==
    AfterText(frame, TextPhone(frame, phone_col), msrp_col, prepaid_col)

AfterNamed(frame, phone_col, msrp_col, prepaid_col) ==
    IF phone_col = NoColumn \/ msrp_col = NoColumn
      THEN AfterSniff(frame, SniffedPhone(frame, phone_col),
                      SniffedMsrp(frame, msrp_col), prepaid_col)
      ELSE AfterSniff(frame, phone_col, msrp_col, prepaid_col)

AfterPositional(frame, phone_col, msrp_col, prepaid_col) ==
    IF phone_col = NoColumn \/ msrp_col = NoColumn \/ prepaid_col = NoColumn
      THEN AfterNamed(frame, NamedPhone(frame.columns, phone_col),
                      NamedMsrp(frame.columns, msrp_col),
                      NamedPrepaid(frame.columns, prepaid_col))
      ELSE AfterNamed(frame, phone_col, msrp_col, prepaid_col)

DetectColumns(frame) ==
    AfterPositional(frame, Positional(frame.columns, 1), Positional(frame.columns, 4),
                    Positional(frame.columns, 8))

\* One pass of the row loop of the pandas path.
InvalidNames == {<<>>, <<"n", "a", "n">>, <<"n", "u", "l", "l">>, <<"n", "o", "n", "e">>}

\* The float the loop reads from a price cell, or NaN when the row is to be
\* skipped (missing, empty, float() raising, or float('nan')).
CellPrice(cell) ==
    IF isna(cell) THEN NaN
    ELSE IF IsStr(cell)
      THEN LET clean == Strip(Remove(Remove(cell.s, "$"), ","))
           IN  IF IsNumeral(clean) THEN FloatOf(clean) ELSE NaN
    ELSE cell.v

FrameRowData(frame, row, cols) ==
    LET msrp == [msrp |-> CellPrice(row[ColumnAt(frame, cols.msrp_col)])]
    IN  IF cols.prepaid_col # NoColumn
           /\ Positive(CellPrice(row[ColumnAt(frame, cols.prepaid_col)]))
          THEN msrp @@ [prepaid |-> CellPrice(row[ColumnAt(frame, cols.prepaid_col)])]
          ELSE msrp

\* str(row[phone_col]).strip()
PhoneName(frame, row, cols) ==
    Strip(StrOfCell(row[ColumnAt(frame, cols.phone_col)],
                    AsFloat(frame, ColumnAt(frame, cols.phone_col))))

FrameRowSkipped(frame, row, cols) ==
    LET phone_name == PhoneName(frame, row, cols)
    IN  \/ LowerStr(phone_name) \in InvalidNames
        \/ Len(phone_name) < 2
        \/ ~Positive(CellPrice(row[ColumnAt(frame, cols.msrp_col)]))

RECURSIVE FrameRows(_, _, _, _, _, _)
FrameRows(frame, cols, i, new_devices, processed_count, skipped_count) ==
    IF i > Len(frame.rows)
      THEN [devices |-> new_devices, processed_count |-> processed_count,
            skipped_count |-> skipped_count]
    ELSE IF FrameRowSkipped(frame, frame.rows[i], cols)
      THEN FrameRows(frame, cols, i + 1, new_devices, processed_count, skipped_count + 1)
    ELSE FrameRows(frame, cols, i + 1,
                   DictPut(new_devices, PhoneName(frame, frame.rows[i], cols),
                           FrameRowData(frame, frame.rows[i], cols)),
                   processed_count + 1, skipped_count)

\* df[col].dropna().head(3).tolist() for a column that was found
SampleOf(frame, col) == IF col # NoColumn THEN Sample(frame, col, 3) ELSE <<>>

\* What the error of the failed detection tells: the columns found, sample
\* values of theirs, and the columns there are.
DetectionError(frame, cols) ==
    [phone_col |-> cols.phone_col, msrp_col |-> cols.msrp_col,
     sample_phones |-> SampleOf(frame, cols.phone_col),
     sample_prices |-> SampleOf(frame, cols.msrp_col),
     available_cols |-> frame.columns]

\* A detection that takes the first column for a role it could not resolve.
FrameColumnsGuessing(frame, cols) ==
    LET guessed == [phone_col |-> Or(cols.phone_col, frame.columns[1]),
                    msrp_col |-> Or(cols.msrp_col, frame.columns[1]),
                    prepaid_col |-> cols.prepaid_col]
    IN  [success |-> TRUE] @@ guessed @@ FrameRows(frame, guessed, 1, <<>>, 0, 0)

\* What the pandas path computes from a frame, before it touches the catalog.
FrameColumns(frame, cols) ==
    IF cols.phone_col = NoColumn \/ cols.msrp_col = NoColumn
      THEN [success |-> FALSE, error |-> "columns",
            payload |-> DetectionError(frame, cols)]
      ELSE [success |-> TRUE] @@ cols @@ FrameRows(frame, cols, 1, <<>>, 0, 0)

process_frame(df) == FrameColumns(dropna_columns(df), DetectColumns(dropna_columns(df)))

\* pd.read_csv on a delimited text: the strings pandas reads as missing
\* become NaN, a column whose other cells are all whole numbers becomes
\* numeric, any other column keeps its texts.
na_values == {<<>>, <<"#", "N", "/", "A">>, <<"#", "N", "A">>, <<"-", "N", "a", "N">>, <<"-", "n", "a", "n">>, <<"<", "N", "A", ">">>, <<"N", "/", "A">>, <<"N", "A">>, <<"N", "U", "L", "L">>, <<"N", "a", "N">>, <<"N", "o", "n", "e">>, <<"n", "/", "a">>, <<"n", "a", "n">>, <<"n", "u", "l", "l">>}

IsWholeNumber(str) == IsNumeral(str) /\ ~IsNaNText(str)

CellText(table, i, j) == IF j <= Len(table.rows[i]) THEN table.rows[i][j] ELSE <<>>

NumericColumn(table, j) ==
    \A i \in 1..Len(table.rows) :
        CellText(table, i, j) \in na_values \/ IsWholeNumber(CellText(table, i, j))

FrameOf(table) ==
    [columns |-> table.fieldnames,
     rows |-> [i \in 1..Len(table.rows) |->
                 [j \in 1..Len(table.fieldnames) |->
                     IF CellText(table, i, j) \in na_values THEN Missing
                     ELSE IF NumericColumn(table, j) THEN Num(FloatOf(CellText(table, i, j)))
                     ELSE Str(CellText(table, i, j))]]]

\* Delimited texts a user uploads. SheetNaN has a price cell reading "nan";
\* the header of SheetItems has no name the streaming processor knows for a
\* price, so it is left to pd.read_csv.
SheetNaN ==
    [readable |-> TRUE, size |-> 19,
     fieldnames |-> <<<<"P", "h", "o", "n", "e">>, <<"P", "r", "i", "c", "e">>>>,
     rows |-> << <<<<"A", "b">>, <<"n", "a", "n">>>> >>]

SheetItems ==
    [readable |-> TRUE, size |-> 33,
     fieldnames |-> <<<<"R", "e", "t", "a", "i", "l">>, <<"I", "t", "e", "m">>>>,
     rows |-> << <<<<"$", "1", "5", "0">>, <<"A", "b">>>>, <<<<"$", "2", "0">>, <<"n", "u", "l", "l">>>>, <<<<"f", "r", "e", "e">>, <<"C", "a">>>> >>]

UploadTables == {SheetNaN, SheetItems, SheetEmpty}

\* The sheets the ingestion is checked on: delimited texts of up to MaxRows
\* rows over a few names and prices, under a header the streaming processor
\* reads (name, price) and under one it leaves to pd.read_csv (price, name);
\* and the three-row sheet SheetA.
NameCells == {<<"A", "b">>, <<>>, <<"X">>}

PriceCells == {<<"$", "1", "5", "0">>, <<"-", "5">>, <<"f", "r", "e", "e">>, <<>>}

RECURSIVE RowsUpTo(_, _)
RowsUpTo(cells, n) ==
    IF n = 0 THEN {<<>>}
    ELSE RowsUpTo(cells, n - 1)
         \cup {Append(rows, row) : rows \in {r \in RowsUpTo(cells, n - 1) : Len(r) = n - 1},
                                   row \in cells}

PhoneFirst == <<<<"P", "h", "o", "n", "e">>, <<"P", "r", "i", "c", "e">>>>

PriceFirst == <<<<"R", "e", "t", "a", "i", "l">>, <<"I", "t", "e", "m">>>>

SheetOf(fieldnames, rows) ==
    [readable |-> TRUE, size |-> 1, fieldnames |-> fieldnames, rows |-> rows]

IngestTables ==
    {SheetOf(PhoneFirst, rows) :
        rows \in RowsUpTo({<<name, price>> : name \in NameCells, price \in PriceCells}, MaxRows)}
    \cup {SheetOf(PriceFirst, rows) :
        rows \in RowsUpTo({<<price, name>> : name \in NameCells, price \in PriceCells}, MaxRows)}
    \cup {SheetA}

IngestInputs == {[ext |-> <<".", "c", "s", "v">>, content |-> table] : table \in IngestTables}

\* Workbooks a user uploads, as pd.read_excel reads their first sheet, with
\* the device names in column B; one that is not a workbook at all makes
\* pd.read_excel raise.
BookPrices ==
    [readable |-> TRUE,
     columns |-> <<<<"P", "r", "i", "c", "e">>, <<"P", "h", "o", "n", "e">>>>,
     rows |-> << <<Num(200), Str(<<"A", "b">>)>>, <<Num(150), Str(<<"X">>)>>, <<Missing, Str(<<"C", "a">>)>> >>]

BookNoValidRows ==
    [readable |-> TRUE,
     columns |-> <<<<"P", "r", "i", "c", "e">>, <<"P", "h", "o", "n", "e">>>>,
     rows |-> << <<Num(-5), Str(<<"A", "b">>)>>, <<Num(20), Missing>> >>]

BookNoColumns ==
    [readable |-> TRUE,
     columns |-> <<<<"S", "K", "U">>>>,
     rows |-> << <<Str(<<"A", "b", "1", "2">>)>> >>]

BookUnreadable == [readable |-> FALSE, columns |-> <<>>, rows |-> <<>>]

Books == {BookPrices, BookNoValidRows, BookNoColumns, BookUnreadable}

-----------------------------------------------------------------------------
(* Column Detector: the sheets the detection is checked on                 *)

\* Column names no tier knows, one per column A..I.
Neutral == <<<<"A">>, <<"B">>, <<"C">>, <<"D">>, <<"E">>, <<"F">>, <<"G">>, <<"H">>, <<"I">>>>

\* Column names the tiers know: for a device name, for a price, for a code,
\* for both a name and a price, for the prepaid price.
HeaderNames ==
    {<<"P", "h", "o", "n", "e">>, <<"P", "r", "i", "c", "e">>, <<"S", "K", "U">>,
     <<"D", "e", "v", "i", "c", "e", " ", "C", "o", "s", "t">>, <<"P", "r", "e", "p", "a", "i", "d">>}

Put(columns, j, name) == [columns EXCEPT ![j] = name]

\* Headers of one, two, five and nine columns.
Headers ==
    {<<a>> : a \in HeaderNames}
    \cup {h \in {<<a, b>> : a \in HeaderNames, b \in HeaderNames} : h[1] # h[2]}
    \cup {SubSeq(Neutral, 1, 5)}
    \cup {Put(Put(SubSeq(Neutral, 1, 5), p, <<"P", "h", "o", "n", "e">>), q, <<"P", "r", "i", "c", "e">>) :
             p \in {1, 2}, q \in {3, 5}}
    \cup {Neutral}
    \cup {Put(Put(Put(Neutral, p, <<"P", "h", "o", "n", "e">>), q, <<"P", "r", "i", "c", "e">>), r, <<"P", "r", "e", "p", "a", "i", "d">>) :
             p \in {1, 2}, q \in {4, 5}, r \in {8, 9}}

\* One row under a header: names and prices in turn, the names in the
\* columns of one parity, or names in every column.
TurnRow(columns, names) ==
    [j \in 1..Len(columns) |->
        IF names = "all" \/ (names = "odd") = (j % 2 = 1)
          THEN <<"A", "b", "c", "d", "e", "f">> ELSE <<"1", "5", "0">>]

DetectTables ==
    {SheetOf(columns, <<TurnRow(columns, names)>>) :
        columns \in Headers, names \in {"odd", "even", "all"}}

\* Each table as a workbook (what pd.read_excel gives of the same cells)
\* and, with two columns or more, as a delimited text: in a text of one
\* column csv.Sniffer finds no delimiter to tell the fields by.
DetectInputs ==
    {[ext |-> <<".", "c", "s", "v">>, content |-> table] :
        table \in {x \in DetectTables : Len(x.fieldnames) > 1}}
    \cup {[ext |-> <<".", "x", "l", "s", "x">>, content |-> [readable |-> TRUE] @@ FrameOf(table)] :
             table \in DetectTables}

-----------------------------------------------------------------------------
(* Catalog Manager: WebSalesTaxCalculator                                  *)

\* A file of the Documents folder: absent, present with a content, or present
\* with what a write that failed midway left of it (open(path, 'w') truncates
\* before the first byte is written).
Absent == [kind |-> "absent"]
Truncated == [kind |-> "truncated"]
File(content) == [kind |-> "ok", content |-> content]

\* os.path.exists
exists(file) == file.kind # "absent"

\* with open(path, 'w') as f: f.write(content), and the ways it ends:
\* written, open() raises (the file stays as it was), write() raises.
WriteOutcomes == {"ok", "open_failed", "write_failed"}

WriteFile(file, content, outcome) ==
    CASE outcome = "ok" -> File(content)
      [] outcome = "open_failed" -> file
      [] outcome = "write_failed" -> Truncated

\* requests.head / requests.get: raises, answers with a status other than
\* 200, or answers 200.
NetOutcomes == {"error", "http_error", "ok"}

\* None, for an absent header and for dict.get of a missing key.
NoValue == -1

\* datetime.now() takes the values k * 1800 seconds, k in 0..MaxTime.
Times == {k * 1800 : k \in 0..MaxTime}

\* What the surroundings decide during one operation of the manager. A step
\* that cannot be reached after an earlier one failed is given no choice.
Envs ==
    {env \in [probe : NetOutcomes, header_size : {NoValue, remote.size},
              download : NetOutcomes, cache_write : WriteOutcomes,
              devices_write : WriteOutcomes, info_write : WriteOutcomes] :
        /\ env.probe # "ok" => env.header_size = NoValue /\ env.download = "ok"
        /\ env.download # "ok" => env.cache_write = "ok"
        /\ env.cache_write # "ok" => env.info_write = "ok"}

\* The same for an operation that sends no probe.
DownloadEnvs == {env \in Envs : env.probe = "ok" /\ env.header_size = NoValue}

\* _build_indexes run over devs[i..], from the indexes (di, pi), to its end
\* or to the device whose price is NaN: there int(price // 100) raises
\* ValueError, after the device's name was appended to its brand.
RECURSIVE BuildIndexes(_, _, _, _)
BuildIndexes(devs, i, di, pi) ==
    IF i > Len(devs)
      THEN [device_index |-> di, price_index |-> pi, raised |-> FALSE]
    ELSE IF IsNaN(PriceOf(devs[i].data))
      THEN [device_index |-> IndexAppend(di, BrandOf(devs[i].name), devs[i].name),
            price_index |-> pi, raised |-> TRUE]
    ELSE BuildIndexes(devs, i + 1,
                      IndexAppend(di, BrandOf(devs[i].name), devs[i].name),
                      IF PriceOf(devs[i].data) # 0
                        THEN IndexAppend(pi, PriceRange(PriceOf(devs[i].data)),
                                         devs[i].name)
                        ELSE pi)

\* load_devices of the Device Cache after _build_indexes ended with `built`:
\* when it raised, the search cache and last_modified stay as they were.
CacheLoaded(c, devices_data, built) ==
    [devices |-> devices_data,
     device_index |-> built.device_index,
     price_index |-> built.price_index,
     search_cache |-> IF built.raised THEN c.search_cache ELSE <<>>,
     last_modified |-> IF built.raised THEN c.last_modified ELSE c.last_modified + 1,
     raised |-> built.raised]

\* OptimizedDeviceCache.load_devices run with no other thread in between, on
\* the cache value c; `raised` tells whether it ended by raising.
CacheLoadDevices(c, devices_data) ==
    CacheLoaded(c, devices_data, BuildIndexes(devices_data, 1, <<>>, <<>>))

\* The cache itself in what CacheLoadDevices gives.
CacheOf(loaded) ==
    [devices |-> loaded.devices, device_index |-> loaded.device_index,
     price_index |-> loaded.price_index, search_cache |-> loaded.search_cache,
     last_modified |-> loaded.last_modified]

\* OptimizedDeviceCache(max_cache_size=2000) as constructed
NewCache ==
    [devices |-> <<>>, device_index |-> <<>>, price_index |-> <<>>,
     search_cache |-> <<>>, last_modified |-> 0]

\* The manager and its files as one value.
World ==
    [devices |-> mem_devices, devices_file |-> devices_file,
     cache_file |-> cache_file, last_update_file |-> last_update_file,
     google_sheets_loaded |-> google_sheets_loaded,
     device_cache |-> [devices |-> devices, device_index |-> device_index,
                       price_index |-> price_index, search_cache |-> search_cache,
                       last_modified |-> last_modified]]

\* json.load(devices.json), or {} when the file is absent or undecodable
DevicesIn(file) == IF file.kind = "ok" THEN file.content ELSE <<>>

\* load_devices after the Device Cache's load_devices ended with `loaded`. A
\* ValueError out of it is not among the exceptions load_devices catches.
DevicesLoaded(w, loaded) ==
    [w |-> [w EXCEPT !.device_cache = CacheOf(loaded)], raised |-> loaded.raised]

\* load_devices
load_devices(w) ==
    DevicesLoaded([w EXCEPT !.devices = DevicesIn(w.devices_file)],
                  CacheLoadDevices(w.device_cache, DevicesIn(w.devices_file)))

\* save_devices after the file was written and the Device Cache's
\* load_devices ended with `loaded`: False when that raised.
DevicesSaved(w, loaded) ==
    [w |-> [w EXCEPT !.device_cache = CacheOf(loaded)], result |-> ~loaded.raised]

\* A save that reloads the cache and leaves devices.json alone.
save_devices_cache_only(w, outcome) ==
    DevicesSaved(w, CacheLoadDevices(w.device_cache, w.devices))

\* save_devices: write devices.json, then reload the Device Cache; False when
\* either raises.
save_devices(w, outcome) ==
    IF outcome = "ok"
      THEN DevicesSaved([w EXCEPT !.devices_file = File(w.devices)],
                        CacheLoadDevices(w.device_cache, w.devices))
      ELSE [w |-> [w EXCEPT !.devices_file = WriteFile(@, w.devices, outcome)],
            result |-> FALSE]

\* What open(cache_file) reads: the content, nothing from a truncated file.
TableOf(file) == IF file.kind = "ok" THEN file.content ELSE SheetEmpty

\* dict.get(key, default)
Get(d, key, default) == IF key \in DOMAIN d THEN d[key] ELSE default

\* process_csv_stream on the contents the files of the manager can have,
\* worked out once; StreamOf is process_csv_stream on any content.
Streamed == [table \in Payloads \cup UploadTables |-> process_csv_stream(table)]

StreamOf(table) ==
    IF table \in DOMAIN Streamed THEN Streamed[table] ELSE process_csv_stream(table)

\* The frames the pandas path can be given: the workbooks, and pd.read_csv of
\* the texts the streaming processor gives up on.
Frames ==
    {[columns |-> book.columns, rows |-> book.rows] : book \in {b \in Books : b.readable}}
    \cup {FrameOf(table) :
              table \in {x \in Payloads \cup UploadTables : x.readable /\ ~Streamed[x].success}}

Framed == [df \in Frames |-> process_frame(df)]

FrameResult(df) == IF df \in DOMAIN Framed THEN Framed[df] ELSE process_frame(df)

\* What a call of process_price_sheet did, for the record of the operation.
NoIngest == [called |-> FALSE]

Ingest(path, found, merged, devices_write) ==
    [called |-> TRUE, path |-> path, merged |-> merged,
     examined |-> Get(found, "success", FALSE),
     devices_write |-> IF merged THEN devices_write ELSE "none",
     error |-> Get(found, "error", "none"),
     payload |-> Get(found, "payload", <<>>),
     fragment |-> Get(found, "devices", <<>>),
     phone_column |-> Get(found, "phone_column", Get(found, "phone_col", NoColumn)),
     msrp_column |-> Get(found, "msrp_column", Get(found, "msrp_col", NoColumn)),
     prepaid_column |-> Get(found, "prepaid_column", Get(found, "prepaid_col", NoColumn)),
     processed_count |-> Get(found, "processed_count", 0),
     skipped_count |-> Get(found, "skipped_count", 0)]

\* The return of the except branch and of the two failure returns.
SheetFailed(w, path, found) ==
    [w |-> w, saved |-> TRUE, result |-> [success |-> FALSE],
     ingest |-> Ingest(path, found, FALSE, "none")]

\* The dict process_price_sheet returns after the streaming processor
\* succeeded with `result` and save_devices() answered `saved`.
SheetProcessed(saved, result, devices_write) ==
    [w |-> saved.w,
     saved |-> saved.result,
     result |-> [success |-> TRUE,
                 devices_added |-> Len(result.devices),
                 phone_column |-> result.phone_column,
                 msrp_column |-> result.msrp_column,
                 prepaid_column |-> result.prepaid_column],
     ingest |-> Ingest("stream", result, TRUE, devices_write)]

\* The dict process_price_sheet returns after the pandas path found
\* new_devices and save_devices() answered `saved`.
FrameProcessed(saved, found, devices_write) ==
    [w |-> saved.w,
     saved |-> saved.result,
     result |-> [success |-> TRUE,
                 devices_added |-> Len(found.devices),
                 total_devices |-> Len(saved.w.devices),
                 phone_column |-> found.phone_col,
                 msrp_column |-> found.msrp_col,
                 processed_count |-> found.processed_count,
                 skipped_count |-> found.skipped_count],
     ingest |-> Ingest("pandas", found, TRUE, devices_write)]

\* A pandas path that merges and saves what it found and reports failure when
\* it had to skip a row.
AfterFrameStrict(w, found, devices_write) ==
    IF ~found.success THEN SheetFailed(w, "pandas", found)
    ELSE IF found.devices = <<>> THEN SheetFailed(w, "pandas", found)
    ELSE IF found.skipped_count > 0
      THEN SheetFailed(save_devices([w EXCEPT !.devices = DictUpdate(@, found.devices)],
                                    devices_write).w,
                       "pandas", found)
    ELSE FrameProcessed(
             save_devices([w EXCEPT !.devices = DictUpdate(@, found.devices)],
                          devices_write),
             found, devices_write)

\* process_price_sheet from the frame on: `found` is what column detection
\* and the row loop made of it.
AfterFrame(w, found, devices_write) ==
    IF ~found.success THEN SheetFailed(w, "pandas", found)
    ELSE IF found.devices = <<>> THEN SheetFailed(w, "pandas", found)
    ELSE FrameProcessed(
             save_devices([w EXCEPT !.devices = DictUpdate(@, found.devices)],
                          devices_write),
             found, devices_write)

\* A .csv path that takes the streamed devices as the whole catalog.
AfterStreamReplacing(w, table, result, devices_write) ==
    IF result.success
      THEN SheetProcessed(
               save_devices([w EXCEPT !.devices = result.devices], devices_write),
               result, devices_write)
    ELSE IF ~table.readable THEN SheetFailed(w, "pandas", <<>>)
    ELSE AfterFrame(w, FrameResult(FrameOf(table)), devices_write)

\* process_price_sheet on a .csv path, from the result of process_csv_stream
\* on. When the streaming processor fails, the code goes on with
\* pd.read_csv(file_path), which raises on a file it cannot parse.
AfterStream(w, table, result, devices_write) ==
    IF result.success
      THEN SheetProcessed(
               save_devices([w EXCEPT !.devices = DictUpdate(@, result.devices)],
                            devices_write),
               result, devices_write)
    ELSE IF ~table.readable THEN SheetFailed(w, "pandas", <<>>)
    ELSE AfterFrame(w, FrameResult(FrameOf(table)), devices_write)

\* process_price_sheet on a file with extension ext and the given content
process_price_sheet(w, ext, content, devices_write) ==
    IF ext = <<".", "c", "s", "v">> THEN AfterStream(w, content, StreamOf(content), devices_write)
    ELSE IF ext \in {<<".", "x", "l", "s", "x">>, <<".", "x", "l", "s">>}
      THEN IF ~content.readable THEN SheetFailed(w, "pandas", <<>>)
           ELSE AfterFrame(w, FrameResult([columns |-> content.columns, rows |-> content.rows]),
                           devices_write)
    ELSE SheetFailed(w, "none", <<>>)

\* load_last_update_info: {} when the file is absent or undecodable
load_last_update_info(w) ==
    IF w.last_update_file.kind = "ok" THEN w.last_update_file.content ELSE <<>>

\* download_and_process_google_sheets from the answer p of process_price_sheet
\* on. `failed` names the step that did not do its work ("none": all did).
AfterProcess(p, env, t, payload) ==
    IF p.result.success
      THEN [w |-> [p.w EXCEPT !.last_update_file =
                       WriteFile(@,
                                 [last_check |-> t, last_update |-> t,
                                  size |-> payload.size,
                                  devices_count |-> Len(p.w.devices),
                                  devices_processed |-> Get(p.result, "processed_count", 0),
                                  devices_skipped |-> Get(p.result, "skipped_count", 0)],
                                 env.info_write)],
            result |-> TRUE,
            failed |-> IF ~p.saved THEN "devices_write"
                       ELSE IF env.info_write # "ok" THEN "info_write"
                       ELSE "none",
            ingest |-> p.ingest]
      ELSE [w |-> p.w, result |-> FALSE, failed |-> "ingest", ingest |-> p.ingest]

\* download_and_process_google_sheets from the write of the cache file on.
AfterCacheWrite(cached, env, t, payload) ==
    IF env.cache_write # "ok"
      THEN [w |-> cached, result |-> FALSE, failed |-> "cache_write"]
      ELSE AfterProcess(process_price_sheet(cached, <<".", "c", "s", "v">>, TableOf(cached.cache_file),
                                            env.devices_write),
                        env, t, payload)

\* download_and_process_google_sheets at time t, the remote serving payload
download_and_process_google_sheets(w, env, t, payload) ==
    IF env.download # "ok"
      THEN [w |-> w, result |-> FALSE, failed |-> "download"]
      ELSE AfterCacheWrite(
               [w EXCEPT !.cache_file = WriteFile(@, payload, env.cache_write)],
               env, t, payload)

\* The if/elif chain of check_and_update_from_google_sheets, with `elapsed`
\* standing for the last branch's test on the seconds since last_check.
ShouldUpdateWith(w, remote_size, elapsed) ==
    IF ~exists(w.cache_file) THEN TRUE
    ELSE IF remote_size # NoValue
            /\ Get(load_last_update_info(w), "size", NoValue) # remote_size THEN TRUE
    ELSE IF Get(load_last_update_info(w), "last_check", NoValue) = NoValue THEN TRUE
    ELSE elapsed

\* A chain that also refreshes when exactly one hour has gone by.
ShouldUpdateFromOneHour(w, remote_size, t) ==
    ShouldUpdateWith(w, remote_size,
                     t - Get(load_last_update_info(w), "last_check", 0) >= 3600)

\* should_update as check_and_update_from_google_sheets computes it
ShouldUpdate(w, remote_size, t) ==
    ShouldUpdateWith(w, remote_size,
                     t - Get(load_last_update_info(w), "last_check", 0) > 3600)

\* What a check reports: the outcome d of the operation it ended with, and
\* what it saw and decided on the way.
Checked(d, probe_ok, remote_size, refreshed) ==
    [w |-> d.w, result |-> d.result, failed |-> d.failed,
     probe_ok |-> probe_ok, remote_size |-> remote_size, refreshed |-> refreshed,
     ingest |-> Get(d, "ingest", NoIngest)]

\* check_and_update_from_google_sheets
check_and_update_from_google_sheets(w, env, t, payload) ==
    IF env.probe # "ok"
      THEN Checked([w |-> w, result |-> FALSE, failed |-> "probe"],
                   FALSE, NoValue, FALSE)
    ELSE IF ShouldUpdate(w, env.header_size, t)
      THEN Checked(download_and_process_google_sheets(w, env, t, payload),
                   TRUE, env.header_size, TRUE)
    ELSE Checked([w |-> w, result |-> TRUE, failed |-> "none"],
                 TRUE, env.header_size, FALSE)

\* load_from_cache_if_available from the answer p of process_price_sheet on
AfterCacheLoad(p) ==
    IF p.result.success THEN [p.w EXCEPT !.google_sheets_loaded = TRUE] ELSE p.w

\* load_from_cache_if_available
load_from_cache_if_available(w, devices_write) ==
    IF exists(w.cache_file)
      THEN AfterCacheLoad(process_price_sheet(w, <<".", "c", "s", "v">>, TableOf(w.cache_file), devices_write))
      ELSE w

\* auto_refresh_on_startup from the answer c of the check on
AfterStartupCheck(c, devices_write) ==
    IF c.result
      THEN [c EXCEPT !.w = [c.w EXCEPT !.google_sheets_loaded = TRUE]]
      ELSE [c EXCEPT !.w = load_from_cache_if_available(c.w, devices_write)]

\* auto_refresh_on_startup
auto_refresh_on_startup(w, env, t, payload) ==
    AfterStartupCheck(check_and_update_from_google_sheets(w, env, t, payload),
                      env.devices_write)

\* The value of last_op before any operation.
NoOp ==
    [op |-> "none", result |-> FALSE, failed |-> "none", probe_ok |-> FALSE,
     remote_size |-> NoValue, refreshed |-> FALSE, ingest |-> NoIngest, at |-> 0]

\* The outcome r of operation op becomes the state of the manager, its files
\* and the Device Cache.
BecomesOf(op, r) ==
    /\ mem_devices' = r.w.devices
    /\ devices_file' = r.w.devices_file
    /\ cache_file' = r.w.cache_file
    /\ last_update_file' = r.w.last_update_file
    /\ google_sheets_loaded' = r.w.google_sheets_loaded
    /\ devices' = r.w.device_cache.devices
    /\ device_index' = r.w.device_cache.device_index
    /\ price_index' = r.w.device_cache.price_index
    /\ search_cache' = r.w.device_cache.search_cache
    /\ last_modified' = r.w.device_cache.last_modified
    /\ last_op' = [op |-> op, result |-> r.result, failed |-> r.failed,
                   probe_ok |-> r.probe_ok, remote_size |-> r.remote_size,
                   refreshed |-> r.refreshed, ingest |-> r.ingest, at |-> now]
    /\ nops' = nops + 1
    /\ UNCHANGED <<remote, now, pvars, merge>>
    /\ recent' = IF r.w.device_cache.search_cache = <<>> THEN <<>> ELSE recent
    /\ UNCHANGED <<cache_lock, lpc, lcat, lpos, spc, sq, slimit, sresults, ncalls,
                   slast, sprev, sclean, sret, rclean, robs>>
    /\ UNCHANGED dvars

\* The same for an operation outside lazy_load_google_sheets.
Becomes(op, r) == BecomesOf(op, r) /\ UNCHANGED lazyvars

\* The process as it starts: nothing in memory, the files as they are.
Fresh ==
    [World EXCEPT !.devices = <<>>, !.device_cache = NewCache,
                  !.google_sheets_loaded = FALSE]

\* WebSalesTaxCalculator(): the process starts (again), with the files the
\* last run left; load_devices(), then auto_refresh_on_startup(). When
\* load_devices() raises, so does the constructor, and no process is left.
Startup ==
    /\ nops < MaxOps
    /\ \E loaded \in {load_devices(Fresh)} :
         IF loaded.raised
           THEN /\ Becomes("startup", [NoOp EXCEPT !.failed = "crash"] @@ [w |-> Fresh])
                /\ started' = FALSE
           ELSE /\ \E r \in {auto_refresh_on_startup(loaded.w, env, now, remote) :
                              env \in Envs} :
                      Becomes("startup", r)
                /\ started' = TRUE

\* lazy_load_google_sheets, on the outcome c of the check
lazy_load_google_sheets(c) ==
    IF c.result
      THEN [c EXCEPT !.w = [c.w EXCEPT !.google_sheets_loaded = TRUE]]
      ELSE c

\* The /lazy_load_google_sheets route
LazyLoad ==
    /\ started
    /\ nops < MaxOps
    /\ \E w \in {World} :
         IF google_sheets_loaded
           THEN Becomes("lazy_load", [NoOp EXCEPT !.result = TRUE] @@ [w |-> w])
           ELSE \E r \in {lazy_load_google_sheets(
                              check_and_update_from_google_sheets(w, env, now, remote)) :
                            env \in Envs} :
                   Becomes("lazy_load", r)
    /\ UNCHANGED started

\* The /refresh_google_sheets route: download_and_process_google_sheets()
ManualRefresh ==
    /\ started
    /\ nops < MaxOps
    /\ \E w \in {World} :
         \E d \in {download_and_process_google_sheets(w, env, now, remote) :
                      env \in DownloadEnvs} :
             Becomes("refresh",
                     Checked(d, FALSE, NoValue, TRUE))
    /\ UNCHANGED started

\* The files a user posts to /upload_price_sheet: the extension of the file
\* name and what the file holds.
UploadFiles ==
    {[ext |-> <<".", "c", "s", "v">>, content |-> table] : table \in UploadTables}
    \cup {[ext |-> <<".", "x", "l", "s", "x">>, content |-> book] : book \in Books}
    \cup {[ext |-> <<".", "C", "S", "V">>, content |-> SheetB], [ext |-> <<".", "t", "x", "t">>, content |-> SheetA]}

allowed_extensions == {<<".", "c", "s", "v">>, <<".", "x", "l", "s", "x">>, <<".", "x", "l", "s">>}

\* What the route answers from the dict p of process_price_sheet.
Uploaded(p) ==
    [w |-> p.w, result |-> p.result.success,
     failed |-> IF ~p.result.success THEN "ingest"
                ELSE IF ~p.saved THEN "devices_write" ELSE "none",
     probe_ok |-> FALSE, remote_size |-> NoValue, refreshed |-> FALSE,
     ingest |-> p.ingest]

\* The /upload_price_sheet route on a posted file: a file of another type is
\* answered with 400 before anything is processed; else
\* process_price_sheet(file_path).
UploadOf(file) ==
    \E w \in {World} :
        IF LowerStr(file.ext) \notin allowed_extensions
          THEN Becomes("upload", [NoOp EXCEPT !.failed = "rejected"] @@ [w |-> w])
          ELSE \E p \in {process_price_sheet(w, file.ext, file.content, devices_write) :
                           devices_write \in WriteOutcomes} :
                  Becomes("upload", Uploaded(p))

Upload ==
    /\ started
    /\ nops < MaxOps
    /\ \E file \in UploadFiles : UploadOf(file)
    /\ UNCHANGED started

\* The first start of the process, and the upload of the sheet under test.
FirstStart == ~started /\ Startup

UploadSheet ==
    /\ started
    /\ nops < MaxOps
    /\ last_op.op # "upload"
    /\ UploadOf(sheet)
    /\ UNCHANGED started

\* Time passes.
Tick ==
    /\ now + 1800 \in Times
    /\ now' = now + 1800
    /\ UNCHANGED <<mem_devices, devices_file, cache_file, last_update_file,
                   google_sheets_loaded, started, remote, nops, last_op, pvars, merge, lazyvars>>
    /\ UNCHANGED <<dvars, cvars>>

\* The owner of the remote sheet publishes another content.
RemoteChange ==
    /\ \E payload \in Payloads \ {remote} : remote' = payload
    /\ UNCHANGED <<mem_devices, devices_file, cache_file, last_update_file,
                   google_sheets_loaded, started, now, nops, last_op, pvars, merge, lazyvars>>
    /\ UNCHANGED <<dvars, cvars>>

\* No merge under way; the manager has held the empty catalog only.
NoMerge == [pc |-> "idle", wholes |-> {<<>>}]

\* A fresh installation: no file in the Documents folder, no process yet.
RefreshStart ==
    /\ mem_devices = <<>>
    /\ devices_file = Absent
    /\ cache_file = Absent
    /\ last_update_file = Absent
    /\ google_sheets_loaded = FALSE
    /\ started = FALSE
    /\ remote = SheetA
    /\ now = 0
    /\ nops = 0
    /\ last_op = NoOp
    /\ merge = NoMerge
    /\ google_sheets_loading = FALSE
    /\ lazy_pc = [t \in 1..LazyCallers |-> "idle"]
    /\ lazy_ret = [t \in 1..LazyCallers |-> "none"]

\* No sheet under test, no call of calculate_sales_tax.
NoSheet == [ext |-> <<>>, content |-> SheetEmpty]

NoTaxInput == [amount |-> 0, tax_rate |-> 0, ties |-> <<>>]

\* No argument for _parse_price, and no call of it yet.
NoPriceInput == [kind |-> "str", text |-> <<>>]

NotCalled == [called |-> FALSE, raised |-> FALSE, value |-> 0]

PureStart ==
    /\ sheet = NoSheet
    /\ tax_in = NoTaxInput
    /\ tax_out = <<>>
    /\ price_in = NoPriceInput
    /\ price_out = NotCalled

NextRefresh == Startup \/ LazyLoad \/ ManualRefresh \/ Tick \/ RemoteChange

\* The catalog under restarts, uploads and refreshes.
NextCatalog == Startup \/ Upload \/ LazyLoad \/ ManualRefresh \/ RemoteChange

\* One sheet through the upload route of a freshly started process.
NextIngest == FirstStart \/ UploadSheet

-----------------------------------------------------------------------------
(* tax_data.calculate_sales_tax                                            *)

\* Amounts are counted in thousandths of a dollar, rates in hundredths of a
\* percent, results in cents; so amount * (tax_rate / 100) is
\* amount * tax_rate / 100000 cents and amount + tax_amount is
\* (amount * 10000 + amount * tax_rate) / 100000 cents.

\* round(x, 2) of x = numer / denom cents. Away from a tie the nearest cent;
\* at a decimal tie the double nearest to x lies above or below it, and
\* round() follows the double: `up` says which.
Round2(numer, denom, up) ==
    IF 2 * (numer % denom) < denom THEN numer \div denom
    ELSE IF 2 * (numer % denom) > denom THEN (numer \div denom) + 1
    ELSE IF up THEN (numer \div denom) + 1
    ELSE numer \div denom

\* calculate_sales_tax(amount, tax_rate); ties.tax and ties.total are the
\* sides the doubles tax_amount and total_amount lie on when at a tie.
calculate_sales_tax(amount, tax_rate, ties) ==
    IF amount < 0 THEN [tax |-> 0, total |-> 0]
    ELSE [tax |-> Round2(amount * tax_rate, 100000, ties.tax),
          total |-> Round2(amount * 10000 + amount * tax_rate, 100000, ties.total)]

\* Arguments of the calls: amounts from nothing to $19.999, one of them
\* negative; rates of 0%, 5%, 5.5%, 6.25% and 100%; and the side of every
\* double that may be at a tie.
Amounts == {-1000, 0, 4, 240, 700, 1000, 19999}

Rates == {0, 500, 550, 625, 10000}

Ties == [tax : BOOLEAN, total : BOOLEAN, product : BOOLEAN, sum : BOOLEAN]

TaxInputs == [amount : Amounts, tax_rate : Rates, ties : Ties]

\* A call of calculate_sales_tax with the arguments drawn.
Calculate ==
    /\ Len(tax_out) < MaxCalls
    /\ tax_out' = Append(tax_out,
                         calculate_sales_tax(tax_in.amount, tax_in.tax_rate, tax_in.ties))
    /\ UNCHANGED <<sheet, tax_in, price_in, price_out>>
    /\ UNCHANGED <<mem_devices, devices_file, cache_file, last_update_file,
                   google_sheets_loaded, started, remote, now, nops, last_op, merge, lazyvars>>
    /\ UNCHANGED <<dvars, cvars>>

NextTax == Calculate

-----------------------------------------------------------------------------
(* StreamingCSVProcessor._parse_price as a caller sees it                  *)

\* A call of _parse_price(price_str) on a value of any type. On a str it is
\* _parse_price above. None and the numbers have no attribute `replace`: the
\* AttributeError is caught and 0.0 returned. bytes has a `replace` that
\* rejects the str arguments with TypeError, which the except clause
\* (ValueError, AttributeError) lets through to the caller.
parse_price_call(price_str) ==
    CASE price_str.kind = "str" ->
            [called |-> TRUE, raised |-> FALSE, value |-> _parse_price(price_str.text)]
      [] price_str.kind \in {"None", "int"} ->
            [called |-> TRUE, raised |-> FALSE, value |-> 0]
      [] price_str.kind = "bytes" ->
            [called |-> TRUE, raised |-> TRUE, value |-> 0]

\* The characters of the price texts drawn, and the texts: every text of up
\* to MaxText characters, and three longer ones.
PriceChars == {"$", ",", " ", "5", "0", "-", "n", "a"}

MaxText == 3

RECURSIVE TextsOf(_)
TextsOf(n) ==
    IF n = 0 THEN {<<>>}
    ELSE TextsOf(n - 1) \cup
         {Append(str, c) : str \in {x \in TextsOf(n - 1) : Len(x) = n - 1}, c \in PriceChars}

PriceTexts ==
    TextsOf(MaxText) \cup
        {<<"$", "1", ",", "2", "9", "9", ".", "0", "0">>, <<"N", "/", "A">>,
         <<" ", "$", "1", "5", "0", ".", " ">>}

\* The arguments drawn: each text as a str, and as values of other types
\* None, the int 5 and the bytes b'5'.
PriceInputs ==
    [kind : {"str"}, text : PriceTexts]
        \cup {[kind |-> "None", text |-> <<>>], [kind |-> "int", text |-> <<"5">>],
              [kind |-> "bytes", text |-> <<"5">>]}

\* A call of _parse_price with the argument drawn.
ParsePrice ==
    /\ ~price_out.called
    /\ price_out' = parse_price_call(price_in)
    /\ UNCHANGED <<sheet, tax_in, tax_out, price_in>>
    /\ UNCHANGED <<mem_devices, devices_file, cache_file, last_update_file,
                   google_sheets_loaded, started, remote, now, nops, last_op, merge, lazyvars>>
    /\ UNCHANGED <<dvars, cvars>>

NextParse == ParsePrice

-----------------------------------------------------------------------------
(* A merge of process_price_sheet against the reads of the Device Cache    *)

\* The new_devices a merge brings: what the streaming processor finds in the
\* two well-formed sheets, one record and two records.
Fragments == {Streamed[SheetA].devices, Streamed[SheetB].devices}

\* self.devices.update(new_devices): the manager's own dict takes the whole
\* fragment; the thread goes on to save_devices().
MergeUpdate(new_devices) ==
    /\ merge.pc = "idle"
    /\ lpc = "idle"
    /\ nops < MaxMerges
    /\ mem_devices' = DictUpdate(mem_devices, new_devices)
    /\ merge' = [pc |-> "merged",
                 wholes |-> merge.wholes \cup {DictUpdate(mem_devices, new_devices)}]
    /\ nops' = nops + 1
    /\ UNCHANGED <<devices_file, cache_file, last_update_file, google_sheets_loaded,
                   started, remote, now, last_op, pvars, lazyvars>>
    /\ UNCHANGED <<dvars, cvars>>

\* save_devices: json.dump into devices.json. When it raises save_devices
\* returns False and the Device Cache is not reloaded.
MergeSave(outcome) ==
    /\ merge.pc = "merged"
    /\ devices_file' = WriteFile(devices_file, mem_devices, outcome)
    /\ merge' = [merge EXCEPT !.pc = IF outcome = "ok" THEN "saved" ELSE "idle"]
    /\ UNCHANGED <<mem_devices, cache_file, last_update_file, google_sheets_loaded,
                   started, remote, now, nops, last_op, pvars, lazyvars>>
    /\ UNCHANGED <<dvars, cvars>>

\* save_devices: self.device_cache.load_devices(self.devices); the thread
\* is inside the cache's load from here on.
MergeLoad ==
    /\ merge.pc = "saved"
    /\ LoadBeginOf(mem_devices)
    /\ merge' = [merge EXCEPT !.pc = "idle"]
    /\ UNCHANGED <<mem_devices, devices_file, cache_file, last_update_file,
                   google_sheets_loaded, started, remote, now, nops, last_op, pvars, lazyvars>>
    /\ UNCHANGED dvars

\* The names the fragments bring.
MergedNames ==
    UNION {{new_devices[i].name : i \in 1..Len(new_devices)} : new_devices \in Fragments}

\* A merging thread against the threads that list, get and search.
NextMerge ==
    \/ \E new_devices \in Fragments : MergeUpdate(new_devices)
    \/ \E outcome \in WriteOutcomes : MergeSave(outcome)
    \/ MergeLoad
    \/ LoadClearIndexes
    \/ LoadIndexDevice
    \/ LoadFinish
    \/ GetDeviceList
    \/ \E device_name \in MergedNames : GetDevice(device_name)
    \/ \E s \in {1} :
          \/ SearchEmpty(s, 2)
          \/ \E query \in Queries : SearchBegin(s, query, 2)
          \/ SearchScan(s)
          \/ SearchWrite(s)

-----------------------------------------------------------------------------
(* lazy_load_google_sheets called from the threads of the server           *)

LazyThreads == 1..LazyCallers

\* The calls that are past the test of the two flags and have not returned.
InLazyLoad == {t \in LazyThreads : lazy_pc[t] # "idle"}

\* if self.google_sheets_loading or self.google_sheets_loaded: return
\* 'already_loaded_or_loading'; else the thread goes on to set the flag. A
\* call is let in only while the operations left suffice for it to finish.
LazyEnter(t) ==
    /\ started
    /\ lazy_pc[t] = "idle"
    /\ nops + Cardinality(InLazyLoad) < MaxOps
    /\ IF google_sheets_loading \/ google_sheets_loaded
         THEN /\ lazy_ret' = [lazy_ret EXCEPT ![t] = "already_loaded_or_loading"]
              /\ UNCHANGED lazy_pc
         ELSE /\ lazy_pc' = [lazy_pc EXCEPT ![t] = "passed"]
              /\ lazy_ret' = [lazy_ret EXCEPT ![t] = "none"]
    /\ UNCHANGED <<mem_devices, devices_file, cache_file, last_update_file,
                   google_sheets_loaded, started, remote, now, nops, last_op, pvars,
                   merge, google_sheets_loading>>
    /\ UNCHANGED <<dvars, cvars>>

\* self.google_sheets_loading = True
LazySet(t) ==
    /\ lazy_pc[t] = "passed"
    /\ google_sheets_loading' = TRUE
    /\ lazy_pc' = [lazy_pc EXCEPT ![t] = "loading"]
    /\ UNCHANGED <<mem_devices, devices_file, cache_file, last_update_file,
                   google_sheets_loaded, started, remote, now, nops, last_op, pvars,
                   merge, lazy_ret>>
    /\ UNCHANGED <<dvars, cvars>>

\* The try block: check_and_update_from_google_sheets(), and
\* google_sheets_loaded = True when it answers True.
LazyRun(t) ==
    /\ lazy_pc[t] = "loading"
    /\ \E r \in {lazy_load_google_sheets(
                     check_and_update_from_google_sheets(World, env, now, remote)) :
                   env \in Envs} :
          /\ BecomesOf("lazy_load", r)
          /\ lazy_ret' = [lazy_ret EXCEPT ![t] = IF r.result THEN "success" ELSE "error"]
    /\ lazy_pc' = [lazy_pc EXCEPT ![t] = "finally"]
    /\ UNCHANGED <<started, google_sheets_loading>>

\* finally: self.google_sheets_loading = False
LazyFinally(t) ==
    /\ lazy_pc[t] = "finally"
    /\ google_sheets_loading' = FALSE
    /\ lazy_pc' = [lazy_pc EXCEPT ![t] = "idle"]
    /\ UNCHANGED <<mem_devices, devices_file, cache_file, last_update_file,
                   google_sheets_loaded, started, remote, now, nops, last_op, pvars,
                   merge, lazy_ret>>
    /\ UNCHANGED <<dvars, cvars>>

\* The start of the process, then lazy loads from the threads.
NextLazy ==
    \/ FirstStart
    \/ \E t \in LazyThreads : LazyEnter(t) \/ LazySet(t) \/ LazyRun(t) \/ LazyFinally(t)

-----------------------------------------------------------------------------
(* Specifications                                                          *)

Init == DedupStart /\ CacheStart /\ RefreshStart /\ PureStart

SpecDedup == Init /\ [][NextDedup]_vars

\* Fair scheduling of the threads that are inside a handler; the arrival of a
\* new request is not forced.
ThreadStep(t) == RequestLeaveLock(t) \/ RequestWork(t) \/ RequestFinally(t)

FairDedup == SpecDedup /\ \A t \in Threads : WF_vars(ThreadStep(t))

\* load_devices against concurrent search_devices calls.
SpecCache == Init /\ [][NextCache]_vars

\* The search-result cache under searches on few keys.
SpecLru == Init /\ [][NextLru]_vars

\* A merging thread against the readers of the Device Cache.
SpecMerge == Init /\ [][NextMerge]_vars

\* lazy_load_google_sheets on the threads of the server.
SpecLazy == Init /\ [][NextLazy]_vars

\* load_devices against the lock-free reads.
SpecCacheReads == Init /\ [][NextCacheReads]_vars


\* The manager's operations one at a time, against a changing remote sheet.
SpecRefresh == Init /\ [][NextRefresh]_vars

SpecCatalog == Init /\ [][NextCatalog]_vars

\* The ingestion on each sheet of a bounded set.
InitIngest ==
    /\ DedupStart /\ CacheStart /\ RefreshStart
    /\ sheet \in IngestInputs
    /\ tax_in = NoTaxInput
    /\ tax_out = <<>>
    /\ price_in = NoPriceInput
    /\ price_out = NotCalled

SpecIngest == InitIngest /\ [][NextIngest]_vars

\* The column detection on each sheet of a bounded set of headers.
InitDetect ==
    /\ DedupStart /\ CacheStart /\ RefreshStart
    /\ sheet \in DetectInputs
    /\ tax_in = NoTaxInput
    /\ tax_out = <<>>
    /\ price_in = NoPriceInput
    /\ price_out = NotCalled

SpecDetect == InitDetect /\ [][NextIngest]_vars

\* calculate_sales_tax on each pair of a bounded set, called twice.
InitTax ==
    /\ DedupStart /\ CacheStart /\ RefreshStart
    /\ sheet = NoSheet
    /\ tax_in \in TaxInputs
    /\ tax_out = <<>>
    /\ price_in = NoPriceInput
    /\ price_out = NotCalled

SpecTax == InitTax /\ [][NextTax]_vars

\* _parse_price on each argument of a bounded set.
InitParse ==
    /\ DedupStart /\ CacheStart /\ RefreshStart
    /\ sheet = NoSheet
    /\ tax_in = NoTaxInput
    /\ tax_out = <<>>
    /\ price_in \in PriceInputs
    /\ price_out = NotCalled

SpecParse == InitParse /\ [][NextParse]_vars

-----------------------------------------------------------------------------
(* Request Deduplicator: properties                                        *)

\* C1: under fair scheduling every caller of get_devices / get_device_data,
\* the one that registered the request and every latecomer that found it in
\* flight, eventually returns from its handler.
C1_EveryCallerReturns ==
    \A t \in Threads : (dpc[t] # "idle") ~> (dpc[t] = "idle")

\* C2: whenever no request for a key is in progress, active_requests holds no
\* entry for that key: the finally block of the thread that registered it has
\* set the Event and removed the entry, whether its work returned or raised.
C2_NoEntryWithoutRequest ==
    \A k \in RequestKeys :
        (\A t \in Threads : ~(InProgress(t) /\ dkey[t] = k))
            => active_requests[k] = NoEvent

\* C2 witness: a thread that registered the entry of its key has finished by
\* raising, no request for the key is in progress, and the entry is gone.
C2_Witness ==
    \E t \in Threads :
        /\ dpc[t] = "idle" /\ dcreated[t] /\ dlast[t] = "raise"
        /\ \A u \in Threads : ~(InProgress(u) /\ dkey[u] = dkey[t])
        /\ active_requests[dkey[t]] = NoEvent

\* C22: request_lock is never held across blocking: in every reachable state
\* the thread that holds the lock is neither blocked in Event.wait() nor
\* executing the catalog read of its try block; the lock is held only while
\* an entry is checked and registered and while it is cleared.
C22_LockNotHeldAcrossBlocking ==
    \A t \in Threads :
        request_lock = t => dpc[t] \notin {"waiting", "work"}

-----------------------------------------------------------------------------
(* Device Cache: properties                                                *)

\* What the indexes are meant to hold, stated from the catalog alone.
FirstWord(name) ==
    LET spaces == {i \in 1..Len(name) : name[i] = " "}
    IN  IF spaces = {} THEN name
        ELSE SubSeq(name, 1, (CHOOSE i \in spaces : \A j \in spaces : i <= j) - 1)

ExpectedBrand(name) ==
    [i \in 1..Len(FirstWord(name)) |->
        IF FirstWord(name)[i] = "A" THEN "a"
        ELSE IF FirstWord(name)[i] = "B" THEN "b"
        ELSE FirstWord(name)[i]]

ExpectedMsrp(device_data) ==
    IF "msrp" \in DOMAIN device_data THEN device_data.msrp
    ELSE IF "legacy" \in DOMAIN device_data THEN device_data.legacy
    ELSE 0

Occurrences(list, x) == Cardinality({i \in 1..Len(list) : list[i] = x})

BrandIndexMatches(index, cat) ==
    /\ DOMAIN index = {ExpectedBrand(cat[i].name) : i \in 1..Len(cat)}
    /\ \A b \in DOMAIN index :
          index[b] = SelectSeq(Keys(cat), LAMBDA n : ExpectedBrand(n) = b)

PriceIndexMatches(index, cat) ==
    \A i \in 1..Len(cat) :
        ExpectedMsrp(cat[i].data) > 0 =>
            /\ \E r \in DOMAIN index :
                  /\ r[1] % 100 = 0 /\ r[2] = r[1] + 99
                  /\ r[1] <= ExpectedMsrp(cat[i].data)
                  /\ ExpectedMsrp(cat[i].data) <= r[2]
                  /\ Occurrences(index[r], cat[i].name) = 1
            /\ \A r \in DOMAIN index :
                  Occurrences(index[r], cat[i].name) > 0
                      => r[1] <= ExpectedMsrp(cat[i].data) /\ ExpectedMsrp(cat[i].data) <= r[2]

\* The step with which load_devices returns.
LoadReturns == lpc = "build" /\ lpc' = "idle"

\* C3: when load(catalog) returns, the held snapshot has exactly the names and
\* records of the given catalog, the brand index maps each lowercased first
\* token to exactly the device names with that first token, the price index
\* holds each device with a positive msrp in exactly the $100 range containing
\* its msrp, and the search-result cache is empty.
C3_LoadPostcondition ==
    [][LoadReturns =>
          /\ devices' = lcat
          /\ BrandIndexMatches(device_index', lcat)
          /\ PriceIndexMatches(price_index', lcat)
          /\ search_cache' = <<>>]_vars

\* C3 witness: a load of the three-device catalog has returned after a search
\* had filled the cache; two names share the brand "ab".
C3_Witness ==
    /\ lpc = "idle" /\ last_modified > 0 /\ devices = CatB
    /\ sret.how = "scan" /\ ~rclean
    /\ search_cache = <<>>
    /\ Len(IndexGet(device_index, <<"a", "b">>)) = 2

\* C4: a read never observes an intermediate reload state: what byBrand
\* returns from the index is what the snapshot held at that moment gives for
\* that brand.
C4_ReadsSeeConsistentIndexes ==
    robs.op = "byBrand" =>
        robs.result = SelectSeq(Keys(robs.snapshot),
                                LAMBDA n : ExpectedBrand(n) = LowerStr(robs.arg))

\* C5: once load(catalog) has completed, every entry of the search-result
\* cache is the result of its query on the currently held catalog.
C5_NoStaleEntryAfterLoad ==
    (lpc = "idle" /\ last_modified > 0) =>
        \A i \in 1..Len(search_cache) :
            search_cache[i].results =
                Scan(devices, search_cache[i].key[1], search_cache[i].key[2])

\* C6: two successive search(query, limit) calls with no load in between
\* return the identical list.
C6_RepeatedSearchSameResult ==
    sret.has_prev => sret.result = sret.prev

\* A step with which a search_devices call returns: at once (empty query or
\* cache hit), or after its cache write.
SearchReturns ==
    \/ ncalls' # ncalls /\ spc' = spc
    \/ \E s \in Searchers : spc[s] = "write" /\ spc'[s] = "idle"

\* C7 (as stated): after search(query, limit) returns, the cache holds an entry
\* for (lowercased query, limit), for every pair; and a second call with the
\* same pair on an unchanged catalog is a cache hit returning the same list.
C7_EveryPairCached ==
    [][SearchReturns =>
          /\ <<LowerStr(sret'.query), sret'.limit>> \in CacheKeys(search_cache')
          /\ sret'.has_prev => (sret'.how = "hit" /\ sret'.result = sret'.prev)]_vars

\* A step that starts a call with a non-empty query whose key is in the cache.
SearchStartsOnCachedKey ==
    /\ ncalls' # ncalls
    /\ \/ /\ spc' = spc /\ sret'.query # <<>>
          /\ <<LowerStr(sret'.query), sret'.limit>> \in CacheKeys(search_cache)
       \/ \E s \in Searchers :
             /\ spc[s] = "idle" /\ spc'[s] = "scan"
             /\ <<LowerStr(sq'[s]), slimit'[s]>> \in CacheKeys(search_cache)

\* C7 (amended): when search(query, limit) with a non-empty query returns, the
\* cache holds an entry for (lowercased query, limit) with the returned list;
\* and a call that finds the entry of its pair in the cache returns that
\* entry's list in the same step, without scanning the catalog.
C7_NonEmptyQueryCached ==
    [][/\ (SearchReturns /\ sret'.query # <<>>) =>
             /\ <<LowerStr(sret'.query), sret'.limit>> \in CacheKeys(search_cache')
             /\ CacheEntry(search_cache', <<LowerStr(sret'.query), sret'.limit>>).results
                  = sret'.result
       /\ SearchStartsOnCachedKey =>
             /\ spc' = spc
             /\ sret'.how = "hit"
             /\ sret'.result =
                  CacheEntry(search_cache, <<LowerStr(sret'.query), sret'.limit>>).results
      ]_vars

\* C7 witness: a call with an upper-case query was served from the entry that
\* the preceding identical call had stored.
C7_Witness ==
    /\ sret.how = "hit" /\ sret.has_prev /\ sret.query = <<"A">>
    /\ sret.result # <<>> /\ sret.result = sret.prev
    /\ <<<<"a">>, sret.limit>> \in CacheKeys(search_cache)

\* The names of the catalog that contain the query, case-insensitively.
Matches(cat, query) ==
    SelectSeq(Keys(cat), LAMBDA n : Contains(LowerStr(n), LowerStr(query)))

\* C8: for a non-empty query and a limit >= 0, search returns at most `limit`
\* names, each containing the query case-insensitively, and they are the
\* first matches in catalog order. Stated for the calls that scanned the
\* catalog while no load ran, so that `devices` is the catalog they scanned.
C8_SearchResultContract ==
    (sret.how = "scan" /\ rclean /\ sret.limit >= 0) =>
        /\ Len(sret.result) <= sret.limit
        /\ \A i \in 1..Len(sret.result) :
              Contains(LowerStr(sret.result[i]), LowerStr(sret.query))
        /\ sret.result = SubSeq(Matches(devices, sret.query), 1, Len(sret.result))
        /\ (Len(sret.result) < sret.limit => sret.result = Matches(devices, sret.query))


\* The step with which searcher s stores its results in the cache.
Stores(s) == spc[s] = "write" /\ spc'[s] = "idle"

\* The store of searcher s is of a key the full cache does not hold, so that
\* it would take the cache over its capacity.
Overflows(s) ==
    /\ Stores(s)
    /\ Len(search_cache) >= LruCapacity
    /\ CacheKey(sq[s], slimit[s]) \notin CacheKeys(search_cache)

\* C23: the search-result cache never holds more than its capacity in entries,
\* and a store that would exceed the capacity removes exactly the entry whose
\* last use, its store or a later hit, lies furthest back.
C23_LruBoundAndOrder ==
    [][/\ Len(search_cache') <= LruCapacity
       /\ \A s \in Searchers :
             Overflows(s) =>
                 CacheKeys(search_cache') =
                     (CacheKeys(search_cache) \ {Head(recent)})
                         \cup {CacheKey(sq[s], slimit[s])}]_vars
-----------------------------------------------------------------------------
(* Properties of the Catalog Manager                                       *)

\* A step that ran the staleness check behind a header probe answered 200.
CheckAfterProbe ==
    /\ nops' = nops + 1
    /\ last_op'.op \in {"startup", "lazy_load"}
    /\ last_op'.probe_ok

\* The four conditions, on the files and the clock as the check finds them;
\* h is the content-length the probe reported (NoValue: none reported).
NoCacheFile == cache_file.kind = "absent"

HasRecord == last_update_file.kind = "ok"

LengthDiffers(h) ==
    h # NoValue /\ (~HasRecord \/ last_update_file.content.size # h)

NoPriorCheck == ~HasRecord

SecondsSinceCheck == now - last_update_file.content.last_check

OlderThanOneHour == HasRecord /\ SecondsSinceCheck > 3600

\* C9: after a header probe answered 200, the refresh is performed exactly
\* when (1) there is no local cache file, or (2) the remote reports a content
\* length other than the recorded one, or (3) no prior check is recorded, or
\* (4) the prior check is more than one hour old; when it is not performed
\* the check succeeds and leaves the files and the catalog as they are.  In
\* particular no Last-Update Record gives a refresh, a check 30 minutes old
\* with a matching size gives none, and a check 90 minutes old gives one.
C9_StalenessDecision ==
    [][CheckAfterProbe =>
         LET h == last_op'.remote_size
         IN  /\ last_op'.refreshed <=>
                  (NoCacheFile \/ LengthDiffers(h) \/ NoPriorCheck \/ OlderThanOneHour)
             /\ ~last_op'.refreshed =>
                  /\ last_op'.result
                  /\ UNCHANGED <<devices_file, cache_file, last_update_file>>
                  /\ last_op'.op = "lazy_load" => mem_devices' = mem_devices
             /\ ~HasRecord => last_op'.refreshed
             /\ (HasRecord /\ SecondsSinceCheck = 1800
                   /\ h \in {NoValue, last_update_file.content.size})
                  => ~last_op'.refreshed
             /\ (HasRecord /\ SecondsSinceCheck = 5400) => last_op'.refreshed
      ]_vars

\* A restart 30 minutes after the recorded check, the remote reporting the
\* recorded length: the check answered without refreshing.
C9_Witness ==
    /\ last_op.op = "startup"
    /\ last_op.probe_ok
    /\ ~last_op.refreshed
    /\ last_update_file.kind = "ok"
    /\ now - last_update_file.content.last_check = 1800
    /\ last_op.remote_size = last_update_file.content.size

\* C10: a refresh in which a step failed (the download, the ingestion of the
\* payload, or a write) leaves devices.json, the local cache copy and the
\* Last-Update Record with the content they had before it started.
C10_FailedRefreshLeavesFilesUntouched ==
    [][(/\ nops' = nops + 1
        /\ last_op'.op \in {"lazy_load", "refresh"}
        /\ last_op'.refreshed
        /\ last_op'.failed # "none")
         => UNCHANGED <<devices_file, cache_file, last_update_file>>
      ]_vars


\* C28: at most one call of lazy_load_google_sheets is in the staleness
\* check or refresh at any time, a call that finds another one loading or
\* the sheet loaded returns 'already_loaded_or_loading', and the flag
\* google_sheets_loading is false whenever no lazy load is executing.
C28_LazyLoadExclusive ==
    /\ Cardinality({t \in LazyThreads : lazy_pc[t] \in {"loading", "finally"}}) <= 1
    /\ InLazyLoad = {} => ~google_sheets_loading

\* The operation before this step was a refresh that succeeded, no more
\* than one hour ago.
JustRefreshed ==
    /\ last_op.refreshed
    /\ last_op.result
    /\ now - last_op.at <= 3600

\* C30: a staleness check made within one hour of a refresh that succeeded,
\* against a remote that reports the content length of the payload that
\* refresh fetched, performs no refresh and no download; the check that
\* follows a successful refresh performs one only when the reported length
\* differs from the fetched one, the cache file is missing, or more than one
\* hour has gone by.
C30_RefreshSettlesStaleness ==
    [][CheckAfterProbe /\ JustRefreshed /\ last_op'.refreshed =>
          \/ NoCacheFile
          \/ /\ last_op'.remote_size # NoValue
             /\ last_op'.remote_size # TableOf(cache_file).size
      ]_vars

-----------------------------------------------------------------------------
(* Catalog Manager: ingestion, merge and persistence                       *)

\* A step of the upload route or of a refresh (manual or lazy) in which
\* process_price_sheet was called and reported failure.
IngestionFailed ==
    /\ nops' = nops + 1
    /\ last_op'.op \in {"upload", "refresh", "lazy_load"}
    /\ last_op'.ingest.called
    /\ last_op'.failed = "ingest"

\* C11: whenever process_price_sheet reports failure for a file, on the upload
\* path or on a refresh path, the in-memory catalog and the snapshot and
\* indexes of the Device Cache are what they were before the call.
C11_FailedIngestionKeepsCatalog ==
    [][IngestionFailed =>
          /\ mem_devices' = mem_devices
          /\ <<devices, device_index, price_index>>' = <<devices, device_index, price_index>>]_vars

\* An upload that the pandas path turned down for want of valid rows, with a
\* catalog in memory that it could have changed.
C11_Witness ==
    /\ last_op.op = "upload"
    /\ last_op.failed = "ingest"
    /\ last_op.ingest.called
    /\ last_op.ingest.path = "pandas"
    /\ last_op.ingest.skipped_count > 0
    /\ mem_devices # <<>>

\* The names held by a catalog.
NameSet(devs) == {devs[i].name : i \in 1..Len(devs)}

\* A step of the upload route or of a refresh in which process_price_sheet
\* merged a fragment into the catalog that was in memory before the step.
Merged ==
    /\ nops' = nops + 1
    /\ last_op'.op \in {"upload", "refresh", "lazy_load"}
    /\ last_op'.ingest.called
    /\ last_op'.ingest.merged

\* C12: after a fragment is merged into the catalog, every name of the
\* fragment maps to exactly the fragment's record, every other name keeps the
\* record it had, and no further name appears.
C12_MergeOverwritesByName ==
    [][Merged =>
          /\ NameSet(mem_devices') = NameSet(mem_devices) \cup NameSet(last_op'.ingest.fragment)
          /\ \A name \in NameSet(last_op'.ingest.fragment) :
                Lookup(mem_devices', name) = Lookup(last_op'.ingest.fragment, name)
          /\ \A name \in NameSet(mem_devices) \ NameSet(last_op'.ingest.fragment) :
                Lookup(mem_devices', name) = Lookup(mem_devices, name)]_vars

\* The workbook's record of "Ab", which has no prepaid price, has replaced the
\* record with a prepaid price that came from the sheet still in the cache
\* file, next to a name the workbook does not mention.
C12_Witness ==
    /\ last_op.op = "upload"
    /\ last_op.ingest.called
    /\ last_op.ingest.merged
    /\ cache_file = File(SheetB)
    /\ "prepaid" \in DOMAIN Lookup(Streamed[SheetB].devices, <<"A", "b">>)
    /\ Lookup(last_op.ingest.fragment, <<"A", "b">>) = [msrp |-> 200]
    /\ Lookup(mem_devices, <<"A", "b">>) = [msrp |-> 200]
    /\ HasKey(mem_devices, <<"a", " ", "B">>)
    /\ ~HasKey(last_op.ingest.fragment, <<"a", " ", "B">>)

\* A step of the running process: an upload, a refresh or a lazy load, or the
\* remote sheet changing; not a (re)start, which reloads the catalog from disk.
RunningStep == started /\ started' /\ ~(nops' = nops + 1 /\ last_op'.op = "startup")

\* C13: once the process has started, no upload or refresh, successful or
\* failed, takes a device name out of the in-memory catalog.
C13_CatalogNeverLosesName ==
    [][RunningStep => NameSet(mem_devices) \subseteq NameSet(mem_devices')]_vars

\* A merge has left in the catalog a name that its fragment does not hold.
C13_Witness ==
    /\ started
    /\ last_op.op \in {"upload", "refresh", "lazy_load"}
    /\ last_op.ingest.called
    /\ last_op.ingest.merged
    /\ last_op.ingest.fragment # <<>>
    /\ NameSet(mem_devices) \ NameSet(last_op.ingest.fragment) # {}

\* An operation (a start included) whose refresh or upload merged a fragment.
MergedByAnyOperation ==
    /\ nops' = nops + 1
    /\ last_op'.ingest.called
    /\ last_op'.ingest.merged

\* C14: every operation that merges records into the in-memory catalog writes
\* devices.json before it returns, and when that write succeeds the file holds
\* exactly the names and records of the in-memory catalog.
C14_MergeIsPersisted ==
    [][MergedByAnyOperation =>
          /\ last_op'.ingest.devices_write \in WriteOutcomes
          /\ last_op'.ingest.devices_write = "ok" => devices_file' = File(mem_devices')]_vars

\* An upload has merged its fragment and the write of devices.json went
\* through, over a file that held less.
C14_Witness ==
    /\ last_op.op = "upload"
    /\ last_op.ingest.called
    /\ last_op.ingest.merged
    /\ last_op.ingest.devices_write = "ok"
    /\ Len(mem_devices) > Len(last_op.ingest.fragment)
    /\ devices_file = File(mem_devices)

\* An operation in which the write of devices.json failed after a merge.
CatalogWriteFailed ==
    /\ nops' = nops + 1
    /\ last_op'.op \in {"upload", "refresh", "lazy_load"}
    /\ last_op'.ingest.called
    /\ last_op'.ingest.merged
    /\ last_op'.ingest.devices_write # "ok"

\* C15: when the write of the catalog file fails during an upload or a
\* refresh, the operation reports failure: process_price_sheet does not
\* return success, and a refresh neither returns true nor writes a new
\* Last-Update Record.
C15_PersistenceFailureReported ==
    [][CatalogWriteFailed =>
          /\ ~last_op'.result
          /\ last_op'.op # "upload" => last_update_file' = last_update_file]_vars

\* An operation whose remote refresh went through to the end.
RefreshSucceeded ==
    /\ nops' = nops + 1
    /\ last_op'.refreshed
    /\ last_op'.result
    /\ last_op'.failed = "none"
    /\ last_op'.ingest.called

\* C16: after a successful remote refresh the Last-Update Record holds the
\* check time, the update time, the size of the fetched payload, and as
\* devices_processed / devices_skipped the processed and skipped counts the
\* ingestion produced for that payload.
C16_RecordHoldsIngestorCounts ==
    [][RefreshSucceeded =>
          /\ last_update_file'.kind = "ok"
          /\ last_update_file'.content.last_check = now
          /\ last_update_file'.content.last_update = now
          /\ last_update_file'.content.size = remote.size
          /\ last_update_file'.content.devices_processed = last_op'.ingest.processed_count
          /\ last_update_file'.content.devices_skipped = last_op'.ingest.skipped_count]_vars

\* A step in which the process starts.
StartupStep == nops' = nops + 1 /\ last_op'.op = "startup"

\* The constructor returned: load_devices() did not raise.
StartupCompletes == StartupStep => last_op'.failed # "crash"

\* With devices.json absent or undecodable, load_devices() leaves an empty
\* catalog.
StartsEmptyWithoutCatalogFile ==
    StartupStep /\ devices_file.kind # "ok" =>
        ~load_devices(Fresh).raised /\ load_devices(Fresh).w.devices = <<>>

\* When the check of the start fails on the network (the probe or the
\* download errs or is answered with another status than 200), every record
\* that was loaded from devices.json is in the in-memory catalog afterwards.
OfflineStartKeepsDiskRecords ==
    StartupStep /\ last_op'.failed \in {"probe", "download"} =>
        \A i \in 1..Len(DevicesIn(devices_file)) :
            Lookup(mem_devices', DevicesIn(devices_file)[i].name)
                = DevicesIn(devices_file)[i].data

\* C17: a start never fails and stays usable offline: with the persisted
\* catalog absent or corrupt the catalog starts empty, and when the staleness
\* check of the start fails the start still completes and the in-memory
\* catalog holds every record loaded from disk.
C17_StartupNeverFails ==
    [][StartupCompletes /\ StartsEmptyWithoutCatalogFile /\ OfflineStartKeepsDiskRecords]_vars

\* C18: every Price Record held in the catalog has msrp > 0, at all times,
\* whatever starts, uploads and refreshes came before and whichever path
\* ingested the row.
C18_EveryMsrpPositive ==
    \A i \in 1..Len(mem_devices) : Positive(mem_devices[i].data.msrp)

-----------------------------------------------------------------------------
(* Tabular Ingestor: the skip rule                                         *)

\* Where a sheet under test keeps the device name and the price of a row.
NameAt(table) == IF table.fieldnames = PriceFirst THEN 2 ELSE 1

PriceAt(table) == IF table.fieldnames = PriceFirst THEN 1 ELSE 2

\* The rule as stated: the device name is empty or the price parses to a
\* value <= 0 (an unparsable or missing price parses to 0).
RuleSkips(table, i) ==
    \/ Strip(CellText(table, i, NameAt(table))) = <<>>
    \/ NotPositive(_parse_price(CellText(table, i, PriceAt(table))))

RuleSkipped(table) == {i \in 1..Len(table.rows) : RuleSkips(table, i)}

RuleEmitted(table) ==
    {Strip(CellText(table, i, NameAt(table))) :
        i \in (1..Len(table.rows)) \ RuleSkipped(table)}

\* The sheet under test went through the upload route and its rows were
\* examined.
SheetIngested ==
    /\ last_op.op = "upload"
    /\ last_op.ingest.called
    /\ last_op.ingest.examined

\* C19: for every input table a row is skipped exactly when its device name
\* is empty or its price parses to a value <= 0, and is emitted as a Price
\* Record otherwise, so the two counts add up to the number of data rows; the
\* three-row sheet with an empty name in row 2 and a price of -5 in row 3
\* gives processed_count 1 and skipped_count 2.
C19_SkipRuleAndCounts ==
    SheetIngested =>
        /\ last_op.ingest.skipped_count = Cardinality(RuleSkipped(sheet.content))
        /\ last_op.ingest.processed_count
               = Len(sheet.content.rows) - Cardinality(RuleSkipped(sheet.content))
        /\ last_op.ingest.processed_count + last_op.ingest.skipped_count
               = Len(sheet.content.rows)
        /\ NameSet(last_op.ingest.fragment) = RuleEmitted(sheet.content)
        /\ sheet.content = SheetA =>
               last_op.ingest.processed_count = 1 /\ last_op.ingest.skipped_count = 2

-----------------------------------------------------------------------------
(* calculate_sales_tax                                                     *)

\* C20: for non-negative amounts and rates the same arguments always give the
\* same pair, the tax is round(amount * rate / 100, 2), and the total is
\* round(amount + tax, 2) for the returned, rounded tax.
C20_TaxAndTotalRounded ==
    tax_in.amount >= 0 /\ tax_in.tax_rate >= 0 =>
        /\ \A i, j \in 1..Len(tax_out) : tax_out[i] = tax_out[j]
        /\ \A i \in 1..Len(tax_out) :
              /\ tax_out[i].tax
                     = Round2(tax_in.amount * tax_in.tax_rate, 100000, tax_in.ties.product)
              /\ tax_out[i].total
                     = Round2(tax_in.amount + 10 * tax_out[i].tax, 10, tax_in.ties.sum)


\* The names and records of a catalog, whatever their order.
Entries(devs) == {devs[i] : i \in 1..Len(devs)}

\* C27: between the operations of a running process the snapshot the Device
\* Cache holds has the same device names and records as the in-memory
\* catalog of the Catalog Manager, also after an operation whose write of
\* the catalog file failed.
C27_CacheTracksCatalog == started => Entries(devices) = Entries(mem_devices)

-----------------------------------------------------------------------------
(* Properties of the Price Parser                                          *)

\* A decimal number as a price sheet writes it: digits, with an optional
\* sign and an optional decimal point.
IsDecimal(str) ==
    LET digits == IF str # <<>> /\ Head(str) \in {"-", "+"} THEN Tail(str) ELSE str
        point == {i \in 1..Len(digits) : digits[i] = "."}
    IN  /\ Cardinality(point) <= 1
        /\ \E i \in 1..Len(digits) : digits[i] \in DOMAIN DigitValue
        /\ \A i \in 1..Len(digits) : digits[i] \in DOMAIN DigitValue \cup {"."}

\* The whole-dollar value of such a number: its digits before the point.
RECURSIVE WholeDollars(_, _)
WholeDollars(str, acc) ==
    IF str = <<>> \/ Head(str) = "." THEN acc
    ELSE IF Head(str) = "-" THEN 0 - WholeDollars(Tail(str), acc)
    ELSE IF Head(str) = "+" THEN WholeDollars(Tail(str), acc)
    ELSE WholeDollars(Tail(str), 10 * acc + DigitValue[Head(str)])

\* The text of a price with '$' and ',' taken out and the blanks at its ends
\* trimmed.
Trimmed(str) ==
    LET kept == SelectSeq(str, LAMBDA c : c \notin {"$", ","})
        inner == {i \in 1..Len(kept) : kept[i] # " "}
    IN  IF inner = {} THEN <<>>
        ELSE SubSeq(kept, CHOOSE i \in inner : \A j \in inner : i <= j,
                          CHOOSE i \in inner : \A j \in inner : j <= i)

\* What the contract promises for an argument: the number its trimmed text
\* denotes, and 0 for every other text and for a value that is no string.
Promised(price_str) ==
    IF price_str.kind = "str" /\ IsDecimal(Trimmed(price_str.text))
      THEN WholeDollars(Trimmed(price_str.text), 0)
      ELSE 0

\* C21: a call of the Price Parser never raises to its caller; on a string
\* that denotes a decimal number once '$', ',' and the surrounding
\* whitespace are stripped it returns that number, and on every other
\* argument it returns 0.
C21_ParserContract ==
    price_out.called =>
        /\ ~price_out.raised
        /\ price_out.value = Promised(price_in)

-----------------------------------------------------------------------------
(* Properties of merges against readers                                    *)

\* What a list, a get and a search give on a catalog.
ListOn(catalog) == [i \in 1..Len(catalog) |-> catalog[i].name]

GetOn(catalog, device_name) ==
    IF \E i \in 1..Len(catalog) : catalog[i].name = device_name
      THEN catalog[CHOOSE i \in 1..Len(catalog) : catalog[i].name = device_name].data
      ELSE None

SearchOn(catalog, query, limit) ==
    IF query = <<>> THEN SliceTo(ListOn(catalog), limit)
    ELSE Scan(catalog, query, limit)

\* C24: readers see only whole merges: what a list, a get or a search served
\* by the Device Cache returns is what it gives on a catalog the manager held
\* before or after a merge, complete, and never on a catalog that holds only
\* some records of a fragment.
C24_ReadersSeeWholeMerges ==
    /\ robs.op = "list" =>
          \E catalog \in merge.wholes : robs.result = ListOn(catalog)
    /\ robs.op = "get" =>
          \E catalog \in merge.wholes : robs.result = GetOn(catalog, robs.arg)
    /\ sret.how # "none" =>
          \E catalog \in merge.wholes :
              sret.result = SearchOn(catalog, sret.query, sret.limit)

\* C24 witness: a merge of two records over a catalog of one is in memory and
\* not yet in the Device Cache, and a list made meanwhile returned the names
\* of the catalog before the merge.
C24_Witness ==
    /\ robs.op = "list" /\ robs.during = "merged"
    /\ merge.pc = "merged"
    /\ Len(robs.result) = 1
    /\ Len(mem_devices) = 2
    /\ mem_devices \in merge.wholes

-----------------------------------------------------------------------------
(* Properties of the Column Detector                                       *)

\* The column names of the sheet under test.
ColumnsOf(file) ==
    IF "fieldnames" \in DOMAIN file.content THEN file.content.fieldnames
    ELSE file.content.columns

\* The upload of the sheet under test settled on its columns.
Detected == last_op.op = "upload" /\ last_op.ingest.called /\ last_op.ingest.examined

\* C25: on every table the detection settles on, in the delimited-text path
\* and in the spreadsheet path, the device-name column is the column at
\* index 1 when there are more than 1 columns, the primary-price column the
\* one at index 4 when there are more than 4, and the secondary-price column
\* the one at index 8 when there are more than 8, whatever the names are.
C25_PositionalGuessFirst ==
    Detected =>
        /\ Len(ColumnsOf(sheet)) > 1 => last_op.ingest.phone_column = ColumnsOf(sheet)[2]
        /\ Len(ColumnsOf(sheet)) > 4 => last_op.ingest.msrp_column = ColumnsOf(sheet)[5]
        /\ Len(ColumnsOf(sheet)) > 8 => last_op.ingest.prepaid_column = ColumnsOf(sheet)[9]

\* The frame the pandas path makes of the sheet under test, empty columns
\* dropped.
SheetFrame(file) ==
    dropna_columns(IF "fieldnames" \in DOMAIN file.content THEN FrameOf(file.content)
                   ELSE [columns |-> file.content.columns, rows |-> file.content.rows])

\* No tier resolves the device-name column or the primary-price column of
\* the sheet under test.
Unresolved(file) ==
    /\ file.content.readable
    /\ "fieldnames" \in DOMAIN file.content => ~StreamOf(file.content).success
    /\ \/ DetectColumns(SheetFrame(file)).phone_col = NoColumn
       \/ DetectColumns(SheetFrame(file)).msrp_col = NoColumn

\* The step is the upload of the sheet under test.
UploadStep == last_op'.op = "upload" /\ nops' = nops + 1

\* C26: the upload of a sheet whose device-name or primary-price column no
\* tier resolves answers with a failure that names the columns there are, the
\* columns found and sample values of theirs; no row of the sheet is
\* processed, and the catalog, the catalog file and the Device Cache are as
\* they were.
C26_DetectionFailureTotal ==
    [][UploadStep /\ Unresolved(sheet) =>
          /\ ~last_op'.result
          /\ last_op'.ingest.called /\ ~last_op'.ingest.merged
          /\ last_op'.ingest.error = "columns"
          /\ last_op'.ingest.payload.available_cols = SheetFrame(sheet).columns
          /\ last_op'.ingest.payload.phone_col = DetectColumns(SheetFrame(sheet)).phone_col
          /\ last_op'.ingest.payload.msrp_col = DetectColumns(SheetFrame(sheet)).msrp_col
          /\ last_op'.ingest.payload.phone_col # NoColumn =>
                 last_op'.ingest.payload.sample_phones # <<>>
          /\ last_op'.ingest.payload.msrp_col # NoColumn =>
                 last_op'.ingest.payload.sample_prices # <<>>
          /\ last_op'.ingest.fragment = <<>>
          /\ last_op'.ingest.processed_count = 0
          /\ last_op'.ingest.skipped_count = 0
          /\ UNCHANGED <<mem_devices, devices_file, devices, device_index,
                         price_index, search_cache, last_modified>>]_vars

\* A sheet with a name column and no price column was uploaded over a
\* catalog that holds a device.
C26_Witness ==
    /\ last_op.op = "upload"
    /\ Unresolved(sheet)
    /\ last_op.ingest.error = "columns"
    /\ last_op.ingest.payload.phone_col # NoColumn
    /\ last_op.ingest.payload.sample_phones # <<>>
    /\ mem_devices # <<>>
    /\ devices = mem_devices

\* C29: on every table the detection settles on, in the delimited-text path
\* and in the spreadsheet path, the device-name column and the primary-price
\* column are two columns.
C29_RolesDistinct == Detected => last_op.ingest.phone_column # last_op.ingest.msrp_column

=============================================================================
